---- MODULE Spec2Model ----
(***************************************************************************)
(* Range-break / pullback trading engine: the strategy state machine, the  *)
(* portfolio manager (kill switch) and the execution engine (pending       *)
(* orders, positions, fees, liquidation).                                  *)
(*                                                                         *)
(* Numbers.  The source computes in 64-bit floats.  Here prices and money  *)
(* are integers in thousandths (Money), sizes are integers in hundredths   *)
(* of a unit (Volume), and every multiplication by a rate (Mul)            *)
(* is an integer multiplication followed by a truncating division.         *)
(* Timestamps of candles and signals are minutes; the portfolio's day      *)
(* arithmetic works on whole days.                                         *)
(***************************************************************************)
EXTENDS Integers, Sequences, FiniteSets, TLC

(***************************************************************************)
(* Bounds of the model                                                     *)
(***************************************************************************)
MaxClock == 2
MaxHistory == 5
MaxTransitions == 8
MaxTime == 2
MaxTrades == 1

VARIABLES
    \* StateMachine
    currentState, stateHistory, lastTransitionTime, consoleLog,
    \* wall clock read by Date.now()
    clock,
    \* history variable: the last call made on the state machine
    smCall,
    \* PortfolioManager
    balance, dailyLoss, consecutiveLosses, lastDayProcessed,
    \* history variable: the timestamp of the last resetDailyStats call, -1
    \* before the first
    processedStamp,
    \* ExecutionEngine
    pendingOrders, pendingMarketOrders, activePositions, lastCandles,
    \* TradeRepository: symbol and status of the trade records, indexed by id
    trades,
    \* history variables: per open position, the balance before it was opened;
    \* and the last call made on the engine, with the trade it closed
    audit, engCall,
    \* RangeBreakPullbackStrategy: its context
    ctx,
    \* the backtest loop: the minute of the global clock and the index of the
    \* symbol whose tick is next
    currentTime, symbolIdx,
    \* history variable: the last generateSignal call, and the 5m timestamp
    \* with which WAIT_PULLBACK was last entered
    stratCall,
    \* which driver runs and where it is ("backtest"; for RunLiveTrading "start"
    \* before start(), "live" at the head of its loop, "sleep" and "backoff" in
    \* the sleep after a tick and after a failed tick, "returned" after
    \* start()), the backtest loop's cursors per symbol, and the live driver's
    \* candle buffers and isRunning flag
    driver, cursors, liveCandles5m, liveCandles1m, isRunning,
    \* the closePosition calls that reached their await on the trade store,
    \* in the order they got there: the trade, the result not yet applied,
    \* and whether the call has resumed and finished
    closes,
    \* fetchHistoricalData for one symbol and timeframe: where it is ("idle",
    \* "loop" inside the retry loop, "done" after its return), its locals
    \* curr, loopCount and retries, the timestamps in the candle store, the
    \* timestamps it returned, and a history counter: the requests made for
    \* the current batch
    download,
    \* history variable: the last call made on the IndicatorEngine or the
    \* PullbackValidator, with its arguments and what it returned (a number as
    \* a fraction)
    serviceCall,
    \* history variable: the last tick of a driver, with the calls it made in
    \* order and the windows it passed to generateSignal
    tickLog

smVars == <<currentState, stateHistory, lastTransitionTime, consoleLog>>
pfVars == <<balance, dailyLoss, consecutiveLosses, lastDayProcessed, processedStamp>>
engVars == <<pendingOrders, pendingMarketOrders, activePositions, lastCandles,
             trades, audit, engCall>>
stratVars == <<ctx, currentTime, symbolIdx, stratCall>>
driverVars == <<driver, cursors, liveCandles5m, liveCandles1m, isRunning, closes,
               download, serviceCall, tickLog>>
vars == <<currentState, stateHistory, lastTransitionTime, consoleLog, clock, smCall,
          balance, dailyLoss, consecutiveLosses, lastDayProcessed, processedStamp,
          pendingOrders, pendingMarketOrders, activePositions, lastCandles,
          trades, audit, engCall, ctx, currentTime, symbolIdx, stratCall,
          driver, cursors, liveCandles5m, liveCandles1m, isRunning, closes,
          download, serviceCall, tickLog>>

(***************************************************************************)
(* StateMachine                                                            *)
(***************************************************************************)

\* The keys of the validTransitions record.
TableStates ==
    {"IDLE", "RANGE_DEFINED", "BREAKOUT_DETECTED", "WAIT_PULLBACK",
     "ENTRY_PLACED", "IN_POSITION", "EXIT", "RESET"}

\* Every member of StrategyState the code names: the table's keys and the
\* state the range-break strategy requests after emitting its limit signal.
StrategyState == TableStates \cup {"LIMIT_ORDER_PLACED"}

validTransitions(state) ==
    CASE state = "IDLE" -> {"RANGE_DEFINED"}
      [] state = "RANGE_DEFINED" -> {"BREAKOUT_DETECTED", "RESET"}
      [] state = "BREAKOUT_DETECTED" -> {"WAIT_PULLBACK", "RESET"}
      [] state = "WAIT_PULLBACK" -> {"ENTRY_PLACED", "RESET"}
      [] state = "ENTRY_PLACED" -> {"IN_POSITION", "RESET"}
      [] state = "IN_POSITION" -> {"EXIT", "RESET"}
      [] state = "EXIT" -> {"RESET"}
      [] state = "RESET" -> {"IDLE"}
      [] OTHER -> {}

canTransition(sm, newState) == newState \in validTransitions(sm.currentState)

SM == [currentState |-> currentState, stateHistory |-> stateHistory,
       lastTransitionTime |-> lastTransitionTime, consoleLog |-> consoleLog]

\* Mutant: the entry timestamp is taken before the request is validated.
transitionStampsFirst(sm, newState, reason, now) ==
    IF ~canTransition(sm, newState) THEN [sm EXCEPT !.lastTransitionTime = now]
    ELSE [currentState |-> newState,
          stateHistory |-> Append(sm.stateHistory,
                                  [state |-> sm.currentState, timestamp |-> now,
                                   reason |-> reason]),
          lastTransitionTime |-> now,
          consoleLog |-> sm.consoleLog + 1]

\* transition(newState, reason) at wall-clock time now.
transition(sm, newState, reason, now) ==
    IF ~canTransition(sm, newState) THEN sm
    ELSE [currentState |-> newState,
          stateHistory |-> Append(sm.stateHistory,
                                  [state |-> sm.currentState, timestamp |-> now,
                                   reason |-> reason]),
          lastTransitionTime |-> now,
          consoleLog |-> sm.consoleLog + 1]

\* Mutant: the second transition of reset() is left out.
resetWithoutIdle(sm, now) ==
    transition(sm, "RESET", "Manual reset", now)

reset(sm, now) ==
    transition(transition(sm, "RESET", "Manual reset", now),
               "IDLE", "Reset complete", now)

SetSM(sm) ==
    /\ currentState' = sm.currentState
    /\ stateHistory' = sm.stateHistory
    /\ lastTransitionTime' = sm.lastTransitionTime
    /\ consoleLog' = sm.consoleLog

Refused(sm, newState) == IF canTransition(sm, newState) THEN 0 ELSE 1

(***************************************************************************)
(* Arithmetic on scaled integers                                           *)
(***************************************************************************)

\* An amount of money or a price given in whole units, in thousandths.
Money(x) == x * 1000

\* x times the rate r = num/den, truncated.
Mul(x, r) == (x * r.num) \div r.den

\* price (thousandths) times size (hundredths of a unit), in thousandths.
Volume(price, size) == (price * size) \div 100

\* Maps keyed by symbol are functions whose domain is the set of keys present.
MapSet(m, k, v) == [x \in (DOMAIN m) \cup {k} |-> IF x = k THEN v ELSE m[x]]
MapDel(m, k) == [x \in (DOMAIN m) \ {k} |-> m[x]]

(***************************************************************************)
(* PortfolioManager                                                        *)
(***************************************************************************)
initialBalance == Money(500)
MAX_DAILY_LOSS_PERCENT == [num |-> 10, den |-> 100]
MAX_CONSECUTIVE_LOSSES == 10
MinutesPerDay == 24 * 60

PF == [balance |-> balance, dailyLoss |-> dailyLoss,
       consecutiveLosses |-> consecutiveLosses,
       lastDayProcessed |-> lastDayProcessed, processedStamp |-> processedStamp]

\* dailyLoss / balance >= MAX_DAILY_LOSS_PERCENT as the float division decides
\* it: x/0 is Infinity for x > 0 and NaN for x = 0, and a negative balance
\* gives a quotient <= 0.
dailyLossReached(pf) ==
    IF pf.balance > 0
    THEN pf.dailyLoss * MAX_DAILY_LOSS_PERCENT.den
             >= pf.balance * MAX_DAILY_LOSS_PERCENT.num
    ELSE pf.balance = 0 /\ pf.dailyLoss > 0

\* Mutant: the switch trips only after more than MAX_CONSECUTIVE_LOSSES losses.
canTradeOverLimit(pf) ==
    IF dailyLossReached(pf) THEN FALSE
    ELSE IF pf.consecutiveLosses > MAX_CONSECUTIVE_LOSSES THEN FALSE
    ELSE TRUE

canTrade(pf) ==
    IF dailyLossReached(pf) THEN FALSE
    ELSE IF pf.consecutiveLosses >= MAX_CONSECUTIVE_LOSSES THEN FALSE
    ELSE TRUE

\* Lengths of the months of 1970, the year timestamp 0 falls in.
MonthLengths == <<31, 28, 31, 30, 31, 30, 31, 31, 30, 31, 30, 31>>

RECURSIVE DayOfMonth(_, _)
DayOfMonth(day, month) ==
    IF month > 12 THEN DayOfMonth(day, 1)
    ELSE IF day < MonthLengths[month] THEN day + 1
    ELSE DayOfMonth(day - MonthLengths[month], month + 1)

\* new Date(timestamp).getUTCDate(), timestamps being minutes since the epoch.
getUTCDate(timestamp) == DayOfMonth(timestamp \div MinutesPerDay, 1)

resetDailyStats(pf, currentTimestamp) ==
    LET currentDay == getUTCDate(currentTimestamp) IN
    IF currentDay # pf.lastDayProcessed
    THEN [pf EXCEPT !.dailyLoss = IF pf.lastDayProcessed # -1 THEN 0 ELSE @,
                    !.consecutiveLosses = IF pf.lastDayProcessed # -1 THEN 0 ELSE @,
                    !.lastDayProcessed = currentDay]
    ELSE pf

deductFee(pf, fee) == [pf EXCEPT !.balance = @ - fee]

Abs(x) == IF x < 0 THEN -x ELSE x

\* Mutant: the net result, fees included, is added to the balance.
applyTradeResultNet(pf, result) ==
    LET pf1 == [pf EXCEPT !.balance = @ + result.netPnl] IN
    IF result.netPnl < 0
    THEN [pf1 EXCEPT !.dailyLoss = @ + Abs(result.netPnl),
                     !.consecutiveLosses = @ + 1]
    ELSE [pf1 EXCEPT !.consecutiveLosses = 0]

applyTradeResult(pf, result) ==
    LET pf1 == [pf EXCEPT !.balance = @ + result.pnl] IN
    IF result.netPnl < 0
    THEN [pf1 EXCEPT !.dailyLoss = @ + Abs(result.netPnl),
                     !.consecutiveLosses = @ + 1]
    ELSE [pf1 EXCEPT !.consecutiveLosses = 0]

SetPF(pf) ==
    /\ balance' = pf.balance
    /\ dailyLoss' = pf.dailyLoss
    /\ consecutiveLosses' = pf.consecutiveLosses
    /\ lastDayProcessed' = pf.lastDayProcessed
    /\ processedStamp' = pf.processedStamp

(***************************************************************************)
(* RiskEngine                                                              *)
(***************************************************************************)
RISK_PERCENT == [num |-> 1, den |-> 100]

\* riskAmount / stopDistance, in hundredths of a unit.
calculatePositionSize(bal, stopDistance) ==
    (Mul(bal, RISK_PERCENT) * 100) \div stopDistance

(***************************************************************************)
(* TradingSignal and Candle                                                *)
(***************************************************************************)
\* The engine is driven for one symbol; its maps are keyed by symbol.
Symbols == {"BTCUSDT"}
Directions == {"LONG", "SHORT"}
OrderTypes == {"LIMIT", "MARKET"}
Timestamps == 1..MaxTime

stopDistance(signal) == Abs(signal.price - signal.stopLoss)

\* The signals given to placeOrder: entry at 100, stop 0.5% away, target at
\* 2.5 times the stop distance.
Signals ==
    {[symbol |-> s, direction |-> d, orderType |-> ot, price |-> Money(100),
      stopLoss |-> IF d = "LONG" THEN 99500 ELSE 100500,
      takeProfit |-> IF d = "LONG" THEN 101250 ELSE 98750,
      timestamp |-> ts] :
        s \in Symbols, d \in Directions, ot \in OrderTypes, ts \in Timestamps}

\* The shapes of the 1m candles given to onMarketData: quiet above and below
\* the entry level, and a crash and a spike that pass the stop and the
\* liquidation level on one side and the target on the other, and a wide
\* candle that passes the stop and the target of either direction but no
\* liquidation level.
CandleShapes ==
    {[open |-> 100200, high |-> 100300, low |-> 100100, close |-> 100200],
     [open |-> 100000, high |-> 101300, low |-> 98700, close |-> 100000],
     [open |-> 99800, high |-> 99900, low |-> 99700, close |-> 99800],
     [open |-> 99800, high |-> 99900, low |-> 90000, close |-> 90100],
     [open |-> 100200, high |-> 110000, low |-> 100100, close |-> 109900]}

\* Candle timestamps: those of the signals, and one after a gap in the feed,
\* 121 minutes after the first signal timestamp and 120 after the second.
CandleTimes == Timestamps \cup {120 + 2}

Candles ==
    {[timestamp |-> ts, symbol |-> s, open |-> sh.open, high |-> sh.high,
      low |-> sh.low, close |-> sh.close] :
        ts \in CandleTimes, s \in Symbols, sh \in CandleShapes}

(***************************************************************************)
(* TradeRepository                                                         *)
(***************************************************************************)
\* saveTrade(record) stores the record; the id it returns is the record's
\* index.  Of a stored record the model keeps the symbol and the status.
saveTrade(store, record) ==
    Append(store, [symbol |-> record.symbol, status |-> record.status])

closeTrade(store, id, exitPrice, exitTime, reason) ==
    [store EXCEPT ![id] = [@ EXCEPT !.status = "CLOSED"]]

(***************************************************************************)
(* ExecutionEngine                                                         *)
(***************************************************************************)
SLIPPAGE == [num |-> 1, den |-> 10000]
MAKER_FEE == [num |-> 2, den |-> 10000]
TAKER_FEE == [num |-> 5, den |-> 10000]
LEVERAGE == 10
MAINTENANCE_MARGIN == [num |-> 5, den |-> 1000]
LIMIT_TIMEOUT == 120

\* this.SLIPPAGE * 0.5
HalfSlippage == [num |-> SLIPPAGE.num, den |-> 2 * SLIPPAGE.den]

\* Date.now() in forceClosePosition: the wall clock is later than every
\* candle timestamp the feed has delivered.
DateNow == 120 + MaxTime + 1

Eng == [pendingOrders |-> pendingOrders, pendingMarketOrders |-> pendingMarketOrders,
        activePositions |-> activePositions, lastCandles |-> lastCandles,
        portfolio |-> PF, trades |-> trades, audit |-> audit, closed |-> <<>>]

has(m, k) == k \in DOMAIN m

placeLimitOrder(e, signal, size) ==
    [e EXCEPT !.pendingOrders =
        MapSet(@, signal.symbol,
               [signal |-> signal, size |-> size, timestamp |-> signal.timestamp])]

queueMarketOrder(e, signal, size) ==
    [e EXCEPT !.pendingMarketOrders =
        MapSet(@, signal.symbol,
               [signal |-> signal, size |-> size, timestamp |-> signal.timestamp])]

\* Mutant: only the limit map is consulted.
hasPendingLimitOnly(e, symbol) == has(e.pendingOrders, symbol)

hasPendingOrder(e, symbol) ==
    has(e.pendingOrders, symbol) \/ has(e.pendingMarketOrders, symbol)

\* Mutant: the kill switch is not consulted.
placeOrderNoKillSwitch(e, signal) ==
    IF has(e.activePositions, signal.symbol) THEN e
    ELSE IF hasPendingOrder(e, signal.symbol) THEN e
    ELSE LET size == calculatePositionSize(e.portfolio.balance, stopDistance(signal))
         IN  IF signal.orderType = "LIMIT"
             THEN placeLimitOrder(e, signal, size)
             ELSE queueMarketOrder(e, signal, size)

\* Mutant: an order is accepted although the symbol has a position.
placeOrderOverPosition(e, signal) ==
    IF ~canTrade(e.portfolio) THEN e
    ELSE IF hasPendingOrder(e, signal.symbol) THEN e
    ELSE LET size == calculatePositionSize(e.portfolio.balance, stopDistance(signal))
         IN  IF signal.orderType = "LIMIT"
             THEN placeLimitOrder(e, signal, size)
             ELSE queueMarketOrder(e, signal, size)

placeOrder(e, signal) ==
    IF ~canTrade(e.portfolio) THEN e
    ELSE IF has(e.activePositions, signal.symbol) THEN e
    ELSE IF hasPendingOrder(e, signal.symbol) THEN e
    ELSE LET size == calculatePositionSize(e.portfolio.balance, stopDistance(signal))
         IN  IF signal.orderType = "LIMIT"
             THEN placeLimitOrder(e, signal, size)
             ELSE queueMarketOrder(e, signal, size)

cancelOrder(e, symbol) ==
    [e EXCEPT !.pendingOrders = MapDel(@, symbol),
              !.pendingMarketOrders = MapDel(@, symbol)]

openPosition(e, symbol, signal, size, entryPrice, timestamp) ==
    LET entryVolume == Volume(entryPrice, size)
        entryFee == Mul(entryVolume, TAKER_FEE)
        tradeId == Len(e.trades) + 1
    IN  [e EXCEPT
            !.portfolio = deductFee(@, entryFee),
            !.trades = saveTrade(@, [symbol |-> symbol, direction |-> signal.direction,
                                     entryTime |-> timestamp, entryPrice |-> entryPrice,
                                     size |-> size, stopLoss |-> signal.stopLoss,
                                     takeProfit |-> signal.takeProfit, status |-> "OPEN"]),
            !.activePositions =
                MapSet(@, symbol, [tradeId |-> tradeId, signal |-> signal, size |-> size,
                                   entryPrice |-> entryPrice, entryTime |-> timestamp,
                                   entryFee |-> entryFee]),
            !.audit = MapSet(@, symbol, [balBefore |-> e.portfolio.balance])]

\* openPosition when tradeRepo.saveTrade rejects: the statements before the
\* await have run, those after it have not.
openPositionSaveRejected(e, symbol, signal, size, entryPrice, timestamp) ==
    LET entryVolume == Volume(entryPrice, size)
        entryFee == Mul(entryVolume, TAKER_FEE)
    IN  [e EXCEPT !.portfolio = deductFee(@, entryFee)]

\* Mutant: the signal's own candle may fill the order.
atOrAfterSignalCandle(candle, order) == ~(candle.timestamp < order.timestamp)

\* An order enqueued at order.timestamp may be filled by this candle.
afterSignalCandle(candle, order) == ~(candle.timestamp <= order.timestamp)

executePendingMarketOrders(e, candle) ==
    IF ~has(e.pendingMarketOrders, candle.symbol) THEN e
    ELSE LET order == e.pendingMarketOrders[candle.symbol]
             fillPrice == IF order.signal.direction = "LONG"
                          THEN candle.open + Mul(candle.open, SLIPPAGE)
                          ELSE candle.open - Mul(candle.open, SLIPPAGE)
             e1 == openPosition(e, candle.symbol, order.signal, order.size,
                                fillPrice, candle.timestamp)
         IN  IF ~afterSignalCandle(candle, order) THEN e
             ELSE [e1 EXCEPT !.pendingMarketOrders = MapDel(@, candle.symbol)]

checkLimitOrders(e, candle) ==
    IF ~has(e.pendingOrders, candle.symbol) THEN e
    ELSE LET order == e.pendingOrders[candle.symbol]
             signal == order.signal
             filled == IF signal.direction = "LONG"
                       THEN candle.low <= signal.price
                       ELSE candle.high >= signal.price
             fillPrice == IF signal.direction = "LONG"
                          THEN signal.price + Mul(signal.price, HalfSlippage)
                          ELSE signal.price - Mul(signal.price, HalfSlippage)
             e1 == openPosition(e, candle.symbol, signal, order.size,
                                fillPrice, candle.timestamp)
         IN  IF ~afterSignalCandle(candle, order) THEN e
             ELSE IF ~filled
             THEN IF candle.timestamp - order.timestamp > LIMIT_TIMEOUT
                  THEN [e EXCEPT !.pendingOrders = MapDel(@, candle.symbol)]
                  ELSE e
             ELSE [e1 EXCEPT !.pendingOrders = MapDel(@, candle.symbol)]

calculateLiquidationPrice(entryPrice, direction) ==
    IF direction = "LONG"
    THEN entryPrice - (entryPrice \div LEVERAGE) + Mul(entryPrice, MAINTENANCE_MARGIN)
    ELSE entryPrice + (entryPrice \div LEVERAGE) - Mul(entryPrice, MAINTENANCE_MARGIN)

\* reason.includes('Stop'), over the exit reasons of the model.
includesStop(reason) == reason = "Stop Loss"

closePosition(e, symbol, exitPrice0, timestamp, reason) ==
    IF ~has(e.activePositions, symbol) THEN e
    ELSE LET pos == e.activePositions[symbol]
             signal == pos.signal
             exitPrice == IF signal.direction = "LONG"
                          THEN exitPrice0 - Mul(exitPrice0, SLIPPAGE)
                          ELSE exitPrice0 + Mul(exitPrice0, SLIPPAGE)
             rawPnl == IF signal.direction = "LONG"
                       THEN Volume(exitPrice - pos.entryPrice, pos.size)
                       ELSE Volume(pos.entryPrice - exitPrice, pos.size)
             exitVol == Volume(exitPrice, pos.size)
             exitFee == IF includesStop(reason) \/ reason = "LIQUIDATED"
                        THEN Mul(exitVol, TAKER_FEE)
                        ELSE Mul(exitVol, MAKER_FEE)
             totalFee == pos.entryFee + exitFee
             netPnl == rawPnl - totalFee
             pf2 == applyTradeResult(deductFee(e.portfolio, exitFee),
                                     [pnl |-> rawPnl, fees |-> totalFee, netPnl |-> netPnl])
         IN  [e EXCEPT
                 !.portfolio = pf2,
                 !.trades = closeTrade(@, pos.tradeId, exitPrice, timestamp, reason),
                 !.activePositions = MapDel(@, symbol),
                 !.audit = MapDel(@, symbol),
                 !.closed = Append(@,
                     [tradeId |-> pos.tradeId, symbol |-> symbol,
                      direction |-> signal.direction, signalTime |-> signal.timestamp,
                      entryTime |-> pos.entryTime, exitTime |-> timestamp,
                      entryPrice |-> pos.entryPrice, size |-> pos.size,
                      stopLoss |-> signal.stopLoss,
                      requestedExit |-> exitPrice0, exitPrice |-> exitPrice,
                      reason |-> reason, rawPnl |-> rawPnl,
                      entryFee |-> pos.entryFee, exitFee |-> exitFee,
                      balBefore |-> e.audit[symbol].balBefore,
                      balAfter |-> pf2.balance])]

\* closePosition up to its await on tradeRepo.closeTrade: the exit fee is
\* deducted and the store is asked to close the trade.  Returns the engine
\* and the suspended call (a sequence of length 1; empty when the symbol has
\* no position).
closePositionToAwait(e, symbol, exitPrice0, timestamp, reason) ==
    IF ~has(e.activePositions, symbol) THEN [e |-> e, call |-> <<>>]
    ELSE LET pos == e.activePositions[symbol]
             signal == pos.signal
             exitPrice == IF signal.direction = "LONG"
                          THEN exitPrice0 - Mul(exitPrice0, SLIPPAGE)
                          ELSE exitPrice0 + Mul(exitPrice0, SLIPPAGE)
             rawPnl == IF signal.direction = "LONG"
                       THEN Volume(exitPrice - pos.entryPrice, pos.size)
                       ELSE Volume(pos.entryPrice - exitPrice, pos.size)
             exitVol == Volume(exitPrice, pos.size)
             exitFee == IF includesStop(reason) \/ reason = "LIQUIDATED"
                        THEN Mul(exitVol, TAKER_FEE)
                        ELSE Mul(exitVol, MAKER_FEE)
             totalFee == pos.entryFee + exitFee
             netPnl == rawPnl - totalFee
         IN  [e |-> [e EXCEPT
                        !.portfolio = deductFee(@, exitFee),
                        !.trades = closeTrade(@, pos.tradeId, exitPrice, timestamp,
                                              reason)],
              call |-> <<[symbol |-> symbol, tradeId |-> pos.tradeId,
                          reason |-> reason, exitFee |-> exitFee,
                          result |-> [pnl |-> rawPnl, fees |-> totalFee,
                                      netPnl |-> netPnl],
                          done |-> FALSE]>>]

\* closePosition after the await: the result is applied and the position
\* removed.
closePositionFromAwait(e, call) ==
    [e EXCEPT !.portfolio = applyTradeResult(@, call.result),
              !.activePositions = MapDel(@, call.symbol),
              !.audit = MapDel(@, call.symbol)]

\* Mutant: the stop-loss is tested before the liquidation level.
exitDecisionStopFirst(pos, candle) ==
    LET signal == pos.signal
        liquidationPrice == calculateLiquidationPrice(pos.entryPrice, signal.direction)
    IN  IF signal.direction = "LONG"
        THEN IF candle.low <= signal.stopLoss
             THEN [exitPrice |-> signal.stopLoss, exitReason |-> "Stop Loss"]
             ELSE IF candle.low <= liquidationPrice
             THEN [exitPrice |-> liquidationPrice, exitReason |-> "LIQUIDATED"]
             ELSE IF candle.high >= signal.takeProfit
             THEN [exitPrice |-> signal.takeProfit, exitReason |-> "Take Profit"]
             ELSE [exitPrice |-> 0, exitReason |-> ""]
        ELSE IF candle.high >= signal.stopLoss
             THEN [exitPrice |-> signal.stopLoss, exitReason |-> "Stop Loss"]
             ELSE IF candle.high >= liquidationPrice
             THEN [exitPrice |-> liquidationPrice, exitReason |-> "LIQUIDATED"]
             ELSE IF candle.low <= signal.takeProfit
             THEN [exitPrice |-> signal.takeProfit, exitReason |-> "Take Profit"]
             ELSE [exitPrice |-> 0, exitReason |-> ""]

\* Mutant: the take-profit is tested before the stop-loss.
exitDecisionTargetFirst(pos, candle) ==
    LET signal == pos.signal
        liquidationPrice == calculateLiquidationPrice(pos.entryPrice, signal.direction)
    IN  IF signal.direction = "LONG"
        THEN IF candle.low <= liquidationPrice
             THEN [exitPrice |-> liquidationPrice, exitReason |-> "LIQUIDATED"]
             ELSE IF candle.high >= signal.takeProfit
             THEN [exitPrice |-> signal.takeProfit, exitReason |-> "Take Profit"]
             ELSE IF candle.low <= signal.stopLoss
             THEN [exitPrice |-> signal.stopLoss, exitReason |-> "Stop Loss"]
             ELSE [exitPrice |-> 0, exitReason |-> ""]
        ELSE IF candle.high >= liquidationPrice
             THEN [exitPrice |-> liquidationPrice, exitReason |-> "LIQUIDATED"]
             ELSE IF candle.low <= signal.takeProfit
             THEN [exitPrice |-> signal.takeProfit, exitReason |-> "Take Profit"]
             ELSE IF candle.high >= signal.stopLoss
             THEN [exitPrice |-> signal.stopLoss, exitReason |-> "Stop Loss"]
             ELSE [exitPrice |-> 0, exitReason |-> ""]

\* The exit managePositions chooses for the position on this candle:
\* liquidation, then stop-loss, then take-profit; reason "" when none.
exitDecision(pos, candle) ==
    LET signal == pos.signal
        liquidationPrice == calculateLiquidationPrice(pos.entryPrice, signal.direction)
    IN  IF signal.direction = "LONG"
        THEN IF candle.low <= liquidationPrice
             THEN [exitPrice |-> liquidationPrice, exitReason |-> "LIQUIDATED"]
             ELSE IF candle.low <= signal.stopLoss
             THEN [exitPrice |-> signal.stopLoss, exitReason |-> "Stop Loss"]
             ELSE IF candle.high >= signal.takeProfit
             THEN [exitPrice |-> signal.takeProfit, exitReason |-> "Take Profit"]
             ELSE [exitPrice |-> 0, exitReason |-> ""]
        ELSE IF candle.high >= liquidationPrice
             THEN [exitPrice |-> liquidationPrice, exitReason |-> "LIQUIDATED"]
             ELSE IF candle.high >= signal.stopLoss
             THEN [exitPrice |-> signal.stopLoss, exitReason |-> "Stop Loss"]
             ELSE IF candle.low <= signal.takeProfit
             THEN [exitPrice |-> signal.takeProfit, exitReason |-> "Take Profit"]
             ELSE [exitPrice |-> 0, exitReason |-> ""]

\* The candle is one managePositions acts on for a position entered at entryTime.
managedCandle(candle, entryTime) == ~(candle.timestamp = entryTime)

managePositions(e, candle) ==
    IF ~has(e.activePositions, candle.symbol) THEN e
    ELSE LET pos == e.activePositions[candle.symbol]
             exit == exitDecision(pos, candle)
         IN  IF ~managedCandle(candle, pos.entryTime) THEN e
             ELSE IF exit.exitReason # ""
             THEN closePosition(e, candle.symbol, exit.exitPrice, candle.timestamp,
                                exit.exitReason)
             ELSE e

onMarketData(e, candle) ==
    LET e0 == [e EXCEPT !.lastCandles = MapSet(@, candle.symbol, candle)]
        e1 == executePendingMarketOrders(e0, candle)
        e2 == checkLimitOrders(e1, candle)
    IN  managePositions(e2, candle)

getCurrentPrice(e, symbol) ==
    IF has(e.lastCandles, symbol) THEN e.lastCandles[symbol].close ELSE 0

\* Mutant: the position is closed at the open of the last candle.
forceClosePositionAtOpen(e, symbol, reason, now) ==
    IF ~has(e.activePositions, symbol) THEN e
    ELSE IF getCurrentPrice(e, symbol) = 0 THEN e
    ELSE closePosition(e, symbol, e.lastCandles[symbol].open, now, reason)

forceClosePosition(e, symbol, reason, now) ==
    IF ~has(e.activePositions, symbol) THEN e
    ELSE LET exitPrice == getCurrentPrice(e, symbol)
         IN  IF exitPrice = 0 THEN e
             ELSE closePosition(e, symbol, exitPrice, now, reason)

SetEng(e) ==
    /\ pendingOrders' = e.pendingOrders
    /\ pendingMarketOrders' = e.pendingMarketOrders
    /\ activePositions' = e.activePositions
    /\ lastCandles' = e.lastCandles
    /\ SetPF(e.portfolio)
    /\ trades' = e.trades
    /\ audit' = e.audit

(***************************************************************************)
(* Candle getters, indicators and detectors the strategy calls             *)
(***************************************************************************)
body(c) == Abs(c.close - c.open)

\* (body / range) * 100 >= percent, without the division.
bodyPercentAtLeast(c, percent) ==
    IF c.high - c.low > 0
    THEN body(c) * 100 >= percent * (c.high - c.low)
    ELSE 0 >= percent

RECURSIVE SumTPV(_)
SumTPV(candles) ==
    IF candles = <<>> THEN 0
    ELSE ((Head(candles).high + Head(candles).low + Head(candles).close) \div 3)
             * Head(candles).volume
         + SumTPV(Tail(candles))

RECURSIVE SumVolume(_)
SumVolume(candles) ==
    IF candles = <<>> THEN 0
    ELSE Head(candles).volume + SumVolume(Tail(candles))

calculateVWAP(candles) ==
    IF Len(candles) = 0 THEN 0
    ELSE IF SumVolume(candles) # 0
    THEN SumTPV(candles) \div SumVolume(candles)
    ELSE 0

\* A 5m window is given by what the strategy and its detectors compute from
\* it: its last candle, ADX(14), ATR(14), SMA(volume, 20), EMA(close, 200)
\* and the highest high and lowest low of the range window.
isMarketValid(w5) ==
    LET adxValid == w5.adx >= 18 /\ w5.adx <= 35
        \* (atr / close) * 100 in [0.15, 0.6]
        volValid == /\ w5.atr * 10000 >= 15 * w5.last.close
                    /\ w5.atr * 1000 <= 6 * w5.last.close
    IN  adxValid /\ volValid

\* MarketRange of the range window.
detectRange(w5) ==
    <<[high |-> w5.windowHigh, low |-> w5.windowLow,
       size |-> w5.windowHigh - w5.windowLow]>>

\* 1.2 * atr <= size <= 3.5 * atr
isRangeValid(range, atr) ==
    12 * atr <= 10 * range.size /\ 10 * range.size <= 35 * atr

detectBreakout(candle, range, atr, volumeSMA) ==
    LET longBreakout == 10 * candle.close > 10 * range.high + atr
        shortBreakout == 10 * candle.close < 10 * range.low - atr
        bodyValid == bodyPercentAtLeast(candle, 50)
        volumeValid == 10 * candle.volume > 8 * volumeSMA
    IN  IF longBreakout /\ bodyValid /\ volumeValid
        THEN <<[direction |-> "LONG", impulseSize |-> candle.close - range.high,
                timestamp |-> candle.timestamp, price |-> candle.close]>>
        ELSE IF shortBreakout /\ bodyValid /\ volumeValid
        THEN <<[direction |-> "SHORT", impulseSize |-> range.low - candle.close,
                timestamp |-> candle.timestamp, price |-> candle.close]>>
        ELSE <<>>

\* |x - level| < level * 0.002
near(x, level) == 1000 * Abs(x - level) < 2 * level

isPullbackValid(candles1m, breakout, range, vwap) ==
    IF Len(candles1m) = 0 THEN FALSE
    ELSE LET lastCandle == candles1m[Len(candles1m)] IN
         IF breakout.direction = "LONG"
         THEN IF 2 * (breakout.price - lastCandle.low) > breakout.impulseSize
              THEN FALSE
              ELSE near(lastCandle.close, range.high) \/ near(lastCandle.close, vwap)
         ELSE IF 2 * (lastCandle.high - breakout.price) > breakout.impulseSize
              THEN FALSE
              ELSE near(lastCandle.close, range.low) \/ near(lastCandle.close, vwap)

(***************************************************************************)
(* RangeBreakPullbackStrategy                                              *)
(***************************************************************************)
PULLBACK_TIMEOUT == 120
LIMIT_DISCOUNT == [num |-> 998, den |-> 1000]
LIMIT_PREMIUM == [num |-> 1002, den |-> 1000]
ATR_BUFFER == [num |-> 4, den |-> 10]
MIN_STOP_PERCENT == [num |-> 5, den |-> 1000]
RISK_REWARD == [num |-> 25, den |-> 10]

getDefaultContext ==
    [range |-> <<>>, breakout |-> <<>>, lastProcessedBar5m |-> 0,
     stateEnterTimestamp |-> 0,
     indicators |-> [atr |-> 0, adx |-> 0, volumeSMA |-> 0]]

\* The strategy object: its state machine and its context.
Strat == [sm |-> SM, ctx |-> ctx]

\* Mutant: the context is discarded and the state machine is left where it is.
forceResetContextOnly(s, now) ==
    [sm |-> s.sm, ctx |-> getDefaultContext]

forceReset(s, now) ==
    [sm |-> reset(s.sm, now), ctx |-> getDefaultContext]

checkTimeouts(s, currentTimestamp, now) ==
    IF s.sm.currentState = "IDLE" \/ s.ctx.stateEnterTimestamp = 0 THEN s
    ELSE IF /\ s.sm.currentState = "WAIT_PULLBACK"
            /\ currentTimestamp - s.ctx.stateEnterTimestamp > PULLBACK_TIMEOUT
    THEN forceReset(s, now)
    ELSE s

handleHighTimeframeLogic(s, w5, now) ==
    LET state == s.sm.currentState IN
    IF state # "IDLE" /\ state # "RANGE_DEFINED" THEN s
    ELSE IF state = "IDLE"
    THEN IF ~isMarketValid(w5) THEN s
         ELSE LET range == detectRange(w5)
                  atr == w5.atr
              IN  IF range # <<>> /\ isRangeValid(range[1], atr)
                  THEN [sm |-> transition(s.sm, "RANGE_DEFINED", "Range Frozen", now),
                        ctx |-> [s.ctx EXCEPT !.range = range,
                                              !.indicators.atr = atr,
                                              !.stateEnterTimestamp = w5.last.timestamp]]
                  ELSE s
    ELSE IF s.ctx.range = <<>> THEN s
         ELSE LET last5m == w5.last
                  volumeSMA == w5.volumeSMA
                  breakout == detectBreakout(last5m, s.ctx.range[1],
                                             s.ctx.indicators.atr, volumeSMA)
                  isBullish == last5m.close > w5.ema200
                  isBearish == last5m.close < w5.ema200
              IN  IF breakout = <<>> THEN s
                  ELSE IF breakout[1].direction = "LONG" /\ ~isBullish THEN s
                  ELSE IF breakout[1].direction = "SHORT" /\ ~isBearish THEN s
                  ELSE [sm |-> transition(
                                   transition(s.sm, "BREAKOUT_DETECTED",
                                              "Breakout Confirmed", now),
                                   "WAIT_PULLBACK", "Waiting for pullback", now),
                        ctx |-> [s.ctx EXCEPT !.breakout = breakout,
                                              !.indicators.volumeSMA = volumeSMA,
                                              !.stateEnterTimestamp = last5m.timestamp]]

\* TradingSignal.createLimitOrder
createLimitOrder(symbol, direction, limitPrice, stopLoss, takeProfit, timestamp) ==
    [symbol |-> symbol, direction |-> direction, orderType |-> "LIMIT",
     price |-> limitPrice, stopLoss |-> stopLoss, takeProfit |-> takeProfit,
     timestamp |-> timestamp]

Max(a, b) == IF a >= b THEN a ELSE b
Min(a, b) == IF a <= b THEN a ELSE b

\* Mutant: the target is put above the limit price for either direction.
limitLevelsTargetAbove(direction, range, atr, vwap) ==
    LET limitPrice == IF direction = "LONG"
                      THEN Mul(Max(range.high, vwap), LIMIT_DISCOUNT)
                      ELSE Mul(Min(range.low, vwap), LIMIT_PREMIUM)
        atrBuffer == Mul(atr, ATR_BUFFER)
        minStopDistance == Mul(limitPrice, MIN_STOP_PERCENT)
        stopDist == IF atrBuffer < minStopDistance THEN minStopDistance
                    ELSE atrBuffer
        stopLoss == IF direction = "LONG" THEN limitPrice - stopDist
                    ELSE limitPrice + stopDist
        takeProfit == limitPrice + Mul(stopDist, RISK_REWARD)
    IN  [price |-> limitPrice, stopLoss |-> stopLoss, takeProfit |-> takeProfit]

\* The prices of the limit signal for the frozen range, the cached ATR and
\* the VWAP of the 1m window.
limitLevels(direction, range, atr, vwap) ==
    LET limitPrice == IF direction = "LONG"
                      THEN Mul(Max(range.high, vwap), LIMIT_DISCOUNT)
                      ELSE Mul(Min(range.low, vwap), LIMIT_PREMIUM)
        atrBuffer == Mul(atr, ATR_BUFFER)
        minStopDistance == Mul(limitPrice, MIN_STOP_PERCENT)
        stopDist == IF atrBuffer < minStopDistance THEN minStopDistance
                    ELSE atrBuffer
        stopLoss == IF direction = "LONG" THEN limitPrice - stopDist
                    ELSE limitPrice + stopDist
        takeProfit == IF direction = "LONG"
                      THEN limitPrice + Mul(stopDist, RISK_REWARD)
                      ELSE limitPrice - Mul(stopDist, RISK_REWARD)
    IN  [price |-> limitPrice, stopLoss |-> stopLoss, takeProfit |-> takeProfit]

\* Returns the strategy after the call and the signal (a sequence of length 1).
createLimitSignal(s, symbol, triggerCandle, vwap, now) ==
    LET direction == s.ctx.breakout[1].direction
        lv == limitLevels(direction, s.ctx.range[1], s.ctx.indicators.atr, vwap)
    IN  [s |-> [sm |-> transition(s.sm, "LIMIT_ORDER_PLACED",
                                  "Limit signal generated", now),
                ctx |-> [s.ctx EXCEPT !.stateEnterTimestamp = triggerCandle.timestamp]],
         signal |-> <<createLimitOrder(symbol, direction, lv.price, lv.stopLoss,
                                       lv.takeProfit, triggerCandle.timestamp)>>]

handleLowTimeframeLogic(s, symbol, candles1m, now) ==
    LET last1m == candles1m[Len(candles1m)]
        vwap == calculateVWAP(candles1m)
    IN  IF s.sm.currentState # "WAIT_PULLBACK" THEN [s |-> s, signal |-> <<>>]
        ELSE IF s.ctx.breakout = <<>> \/ s.ctx.range = <<>>
        THEN [s |-> s, signal |-> <<>>]
        ELSE IF ~isPullbackValid(candles1m, s.ctx.breakout[1], s.ctx.range[1], vwap)
        THEN [s |-> s, signal |-> <<>>]
        ELSE createLimitSignal(s, symbol, last1m, vwap, now)

generateSignal(s, symbol, w5, candles1m, now) ==
    LET last5m == w5.last
        last1m == candles1m[Len(candles1m)]
        s1 == checkTimeouts(s, last1m.timestamp, now)
        s2 == IF last5m.timestamp > s1.ctx.lastProcessedBar5m
              THEN LET h == handleHighTimeframeLogic(s1, w5, now) IN
                   [h EXCEPT !.ctx.lastProcessedBar5m = last5m.timestamp]
              ELSE s1
    IN  handleLowTimeframeLogic(s2, symbol, candles1m, now)

SetStrat(s) ==
    /\ SetSM(s.sm)
    /\ ctx' = s.ctx

(***************************************************************************)
(* IndicatorEngine.  A result is the fraction num / den the floating-point *)
(* expression stands for; 0 is 0 / 1.                                      *)
(***************************************************************************)
Zero == [num |-> 0, den |-> 1]

RECURSIVE Sum(_)
Sum(values) == IF values = <<>> THEN 0 ELSE Head(values) + Sum(Tail(values))

\* values.slice(-n)
LastOf(values, n) == SubSeq(values, Max(1, Len(values) - n + 1), Len(values))

calculateSMA(values, period) ==
    IF Len(values) < period THEN Zero
    ELSE [num |-> Sum(LastOf(values, period)), den |-> period]

\* ema = close * k + ema * (1 - k) with k = 2 / (period + 1), up to candle i.
RECURSIVE emaLoop(_, _, _)
emaLoop(candles, period, i) ==
    IF i = 1 THEN [num |-> candles[1].close, den |-> 1]
    ELSE LET ema == emaLoop(candles, period, i - 1)
         IN  [num |-> 2 * candles[i].close * ema.den + (period - 1) * ema.num,
              den |-> (period + 1) * ema.den]

calculateEMA(candles, period) ==
    IF Len(candles) = 0 THEN Zero ELSE emaLoop(candles, period, Len(candles))

\* The true ranges of the candles after the first.
trueRanges(candles) ==
    [i \in 1..(Len(candles) - 1) |->
        LET high == candles[i + 1].high
            low == candles[i + 1].low
            prevClose == candles[i].close
        IN  Max(high - low, Max(Abs(high - prevClose), Abs(low - prevClose)))]

calculateATR(candles, period) ==
    IF Len(candles) < period + 1 THEN Zero
    ELSE calculateSMA(LastOf(trueRanges(candles), period), period)

\* dx = |plusDI - minusDI| / (plusDI + minusDI) * 100 with
\* DI = smoothedDM / smoothedTR * 100; the three averages have the same
\* denominator, which cancels.
calculateADX(candles, period) ==
    IF Len(candles) < period * 2 THEN Zero
    ELSE LET plusDM == [i \in 1..(Len(candles) - 1) |->
                 LET highDiff == candles[i + 1].high - candles[i].high
                     lowDiff == candles[i].low - candles[i + 1].low
                 IN  IF highDiff > lowDiff /\ highDiff > 0 THEN highDiff ELSE 0]
             minusDM == [i \in 1..(Len(candles) - 1) |->
                 LET highDiff == candles[i + 1].high - candles[i].high
                     lowDiff == candles[i].low - candles[i + 1].low
                 IN  IF lowDiff > highDiff /\ lowDiff > 0 THEN lowDiff ELSE 0]
             smoothedPlusDM == calculateSMA(LastOf(plusDM, period), period)
             smoothedMinusDM == calculateSMA(LastOf(minusDM, period), period)
             smoothedTR == calculateSMA(LastOf(trueRanges(candles), period), period)
         IN  IF smoothedTR.num = 0 \/ smoothedPlusDM.num + smoothedMinusDM.num = 0
             THEN Zero
             ELSE [num |-> 100 * Abs(smoothedPlusDM.num - smoothedMinusDM.num),
                   den |-> smoothedPlusDM.num + smoothedMinusDM.num]

(***************************************************************************)
(* RunBacktest: the stored candle series and the windows the loop cuts     *)
(* from them.  Timestamps are minutes.                                     *)
(***************************************************************************)
MaxSession == 2
GapMinutes == 124

\* The symbols of the backtest, in the order of the loop.
BacktestSymbols == <<"BTCUSDT", "ETHUSDT">>

\* The first stored 1m timestamp, and the minute the loop starts at.
minTime == 0
simulationStartTime == minTime + 200 * 5

\* The minimal index of the last closed candle for a tick to be processed.
WARMUP_5M == 250
WARMUP_1M == 50

\* The stored minutes are two sessions: the first from the start of the loop
\* to the next 5m bar, the second, of MaxSession + 1 minutes, GapMinutes after
\* the start.
firstSessionEnd == simulationStartTime + 5
maxTime == simulationStartTime + GapMinutes + MaxSession

Range(a, b) == [i \in 1..(b - a + 1) |-> a + i - 1]
Grid5m(a, b) == [i \in 1..((b - a) \div 5 + 1) |-> a + 5 * (i - 1)]
Without(series, missing) == SelectSeq(series, LAMBDA ts : ts \notin missing)

\* The stored series, by the timestamps of their candles, ascending.  Of
\* BTCUSDT the 1m candles between the sessions are missing, and the 1m series
\* reaches the warm-up length 4 minutes into the first session.  Of ETHUSDT
\* the 5m series reaches the warm-up length 5 minutes into the first session,
\* the 5m candles from the first session to the one open when the second
\* starts are missing, and the 1m series has the first minute of the second
\* session only.
dataMap ==
    [BTCUSDT |->
        [candles5m |-> Grid5m(simulationStartTime - 5 * (WARMUP_5M + 10), maxTime),
         candles1m |-> <<minTime>>
                       \o Range(simulationStartTime - (WARMUP_1M - 4), firstSessionEnd)
                       \o Range(simulationStartTime + GapMinutes, maxTime)],
     ETHUSDT |->
        [candles5m |-> Without(Grid5m(simulationStartTime - 5 * WARMUP_5M, maxTime),
                               (simulationStartTime + 10)
                                   .. (simulationStartTime + GapMinutes)),
         candles1m |-> <<minTime>>
                       \o Range(simulationStartTime - (WARMUP_1M + 10), firstSessionEnd)
                       \o <<simulationStartTime + GapMinutes>>]]

\* The element at a 0-based index.
At(series, idx) == series[idx + 1]

Least(S) == CHOOSE i \in S : \A j \in S : i <= j

\* while (idx1m < length - 1 && candles1m[idx1m].timestamp < currentTime) idx1m++
\* leaves the first index from idx1m on at which the condition is false.
advance1m(candles1m, idx1m, t) ==
    Least({i \in idx1m .. Max(idx1m, Len(candles1m) - 1) :
               ~(i < Len(candles1m) - 1 /\ At(candles1m, i) < t)})

\* while (idx5m < length - 1 && candles5m[idx5m + 1].timestamp <= currentTime) idx5m++
advance5m(candles5m, idx5m, t) ==
    Least({i \in idx5m .. Max(idx5m, Len(candles5m) - 1) :
               ~(i < Len(candles5m) - 1 /\ At(candles5m, i + 1) <= t)})

\* Array.slice(start, end) for 0 <= start.
slice(series, start, end) ==
    SubSeq(series, start + 1, IF end < Len(series) THEN end ELSE Len(series))

\* Mutant: the 5m candle at the cursor is passed whether closed or not.
cutWindowsAtCursor(data, cursor, t) ==
    LET idx1m == advance1m(data.candles1m, cursor.idx1m, t)
        idx5m == advance5m(data.candles5m, cursor.idx5m, t)
        valid5mEnd == idx5m
        valid1mEnd == idx1m - 1
    IN  [cursor |-> [idx5m |-> idx5m, idx1m |-> idx1m],
         processed |-> /\ At(data.candles1m, idx1m) = t
                       /\ valid5mEnd >= WARMUP_5M
                       /\ valid1mEnd >= WARMUP_1M,
         relevant5m |-> slice(data.candles5m, Max(0, valid5mEnd - 300), valid5mEnd + 1),
         relevant1m |-> slice(data.candles1m, Max(0, valid1mEnd - 50), valid1mEnd + 1)]

\* One iteration of the symbol loop up to the calls: the cursors after it,
\* whether the tick is processed (no continue), and the timestamps of the
\* windows for generateSignal.
cutWindows(data, cursor, t) ==
    LET idx1m == advance1m(data.candles1m, cursor.idx1m, t)
        idx5m == advance5m(data.candles5m, cursor.idx5m, t)
        valid5mEnd == IF At(data.candles5m, idx5m) + 5 > t THEN idx5m - 1 ELSE idx5m
        valid1mEnd == idx1m - 1
    IN  [cursor |-> [idx5m |-> idx5m, idx1m |-> idx1m],
         processed |-> /\ At(data.candles1m, idx1m) = t
                       /\ valid5mEnd >= WARMUP_5M
                       /\ valid1mEnd >= WARMUP_1M,
         relevant5m |-> slice(data.candles5m, Max(0, valid5mEnd - 300), valid5mEnd + 1),
         relevant1m |-> slice(data.candles1m, Max(0, valid1mEnd - 50), valid1mEnd + 1)]

\* The 5m windows: a quiet bar inside a valid range, a bar closing above it,
\* a bar closing below it, and a trending market (ADX out of band).
Views5m ==
    {[last |-> [open |-> 99500, high |-> 100000, low |-> 99400, close |-> 99600,
                volume |-> 10],
      adx |-> 25, atr |-> 500, volumeSMA |-> 10, ema200 |-> 99500,
      windowHigh |-> 100000, windowLow |-> 99000],
     [last |-> [open |-> 99900, high |-> 100250, low |-> 99850, close |-> 100200,
                volume |-> 10],
      adx |-> 25, atr |-> 500, volumeSMA |-> 10, ema200 |-> 99500,
      windowHigh |-> 100250, windowLow |-> 99000],
     [last |-> [open |-> 99100, high |-> 99150, low |-> 98750, close |-> 98800,
                volume |-> 10],
      adx |-> 25, atr |-> 500, volumeSMA |-> 10, ema200 |-> 99500,
      windowHigh |-> 100000, windowLow |-> 98750],
     [last |-> [open |-> 99500, high |-> 100000, low |-> 99400, close |-> 99600,
                volume |-> 10],
      adx |-> 50, atr |-> 500, volumeSMA |-> 10, ema200 |-> 99500,
      windowHigh |-> 100000, windowLow |-> 99000]}

\* The 1m candles: a pullback to the range high, a pullback to the range
\* low, traded and with no volume at all, and a candle away from both.
Bars1m ==
    {[open |-> 100160, high |-> 100180, low |-> 100100, close |-> 100150, volume |-> 5],
     [open |-> 98840, high |-> 98900, low |-> 98830, close |-> 98850, volume |-> 5],
     [open |-> 98840, high |-> 98900, low |-> 98830, close |-> 98850, volume |-> 0],
     [open |-> 99500, high |-> 99600, low |-> 99400, close |-> 99500, volume |-> 5]}

\* The window the strategy sees in a 5m series whose last candle has
\* timestamp ts.
Window5m(view, ts) ==
    [view EXCEPT !.last = [timestamp |-> ts, open |-> view.last.open,
                           high |-> view.last.high, low |-> view.last.low,
                           close |-> view.last.close, volume |-> view.last.volume]]

Candle1m(symbol, ts, bar) ==
    [timestamp |-> ts, symbol |-> symbol, open |-> bar.open, high |-> bar.high,
     low |-> bar.low, close |-> bar.close, volume |-> bar.volume]

\* The minutes for which some symbol has a stored 1m candle.
StoredMinutes ==
    UNION {{dataMap[sym].candles1m[i] : i \in DOMAIN dataMap[sym].candles1m} :
               sym \in {"BTCUSDT", "ETHUSDT"}}

\* The next minute of the loop in which some symbol has a 1m candle; in the
\* minutes before it every iteration of the symbol loop ends at its first
\* continue.
NextMinute(t) ==
    IF \E m \in StoredMinutes : m > t
    THEN CHOOSE m \in StoredMinutes : m > t /\ \A n \in StoredMinutes : n > t => m <= n
    ELSE maxTime + 1

\* The loop's next position: the next symbol of this minute, or the first
\* symbol of the next minute.
Advance ==
    IF symbolIdx < Len(BacktestSymbols)
    THEN symbolIdx' = symbolIdx + 1 /\ currentTime' = currentTime
    ELSE symbolIdx' = 1 /\ currentTime' = NextMinute(currentTime)

(***************************************************************************)
(* The calls of one driver tick                                            *)
(***************************************************************************)
\* Mutant: the signal is generated and placed before the engine sees the bar.
tickCallsSignalFirst(e, s, candle, symbol, w5, candles1m, now) ==
    LET r == generateSignal(s, symbol, w5, candles1m, now)
        e1 == IF r.signal # <<>> THEN placeOrder(e, r.signal[1]) ELSE e
        e2 == onMarketData(e1, candle)
    IN  [e |-> e2, s |-> r.s, signal |-> r.signal, queued |-> e1 # e,
         calls |-> (IF r.signal # <<>> THEN <<"generateSignal", "placeOrder">>
                    ELSE <<"generateSignal">>) \o <<"onMarketData">>]

\* onMarketData(candle), then generateSignal, then placeOrder if a signal was
\* returned.  Returns the engine and the strategy after the calls, the
\* signal, whether placeOrder queued it, and the calls in order.
tickCalls(e, s, candle, symbol, w5, candles1m, now) ==
    LET e1 == onMarketData(e, candle)
        r == generateSignal(s, symbol, w5, candles1m, now)
        e2 == IF r.signal # <<>> THEN placeOrder(e1, r.signal[1]) ELSE e1
    IN  [e |-> e2, s |-> r.s, signal |-> r.signal, queued |-> e2 # e1,
         calls |-> <<"onMarketData", "generateSignal">>
                   \o (IF r.signal # <<>> THEN <<"placeOrder">> ELSE <<>>)]

\* updateCandleBuffer(buffer, newCandle, maxSize)
updateCandleBuffer(buffer, newCandle, maxSize) ==
    IF buffer # <<>> /\ buffer[Len(buffer)].timestamp = newCandle.timestamp
    THEN [buffer EXCEPT ![Len(buffer)] = newCandle]
    ELSE LET pushed == Append(buffer, newCandle) IN
         IF Len(pushed) > maxSize THEN Tail(pushed) ELSE pushed

\* The minute of the exchange's clock at which the live driver is started.
LiveStart == simulationStartTime + 4

\* The objects after construction.
Constructed ==
    /\ currentState = "IDLE"
    /\ stateHistory = <<>>
    /\ clock = 0
    /\ lastTransitionTime = 0
    /\ consoleLog = 0
    /\ smCall = [op |-> "none", arg |-> "IDLE", path |-> <<"IDLE">>, refused |-> 0]
    /\ balance = initialBalance
    /\ dailyLoss = 0
    /\ consecutiveLosses = 0
    /\ lastDayProcessed = -1
    /\ processedStamp = -1
    /\ pendingOrders = <<>>
    /\ pendingMarketOrders = <<>>
    /\ activePositions = <<>>
    /\ lastCandles = <<>>
    /\ trades = <<>>
    /\ audit = <<>>
    /\ engCall = [op |-> "none", symbol |-> "none", orderType |-> "none",
                  closed |-> <<>>]
    /\ ctx = getDefaultContext
    /\ symbolIdx = 1
    /\ stratCall = [symbol |-> "none", t1 |-> 0, signal |-> <<>>, enteredWait |-> 0]
    /\ cursors = [sym \in {"BTCUSDT", "ETHUSDT"} |-> [idx5m |-> 0, idx1m |-> 0]]
    /\ liveCandles5m = <<>>
    /\ liveCandles1m = <<>>
    /\ isRunning = FALSE
    /\ closes = <<>>
    /\ serviceCall = [fn |-> "none", candles |-> <<>>, period |-> 0,
                  result |-> [num |-> 0, den |-> 1]]
    /\ download = [pc |-> "idle", curr |-> 0, loopCount |-> 0, retries |-> 0,
                   attempts |-> 0, stored |-> {}, returned |-> {}]
    /\ tickLog = [driver |-> "none", minute |-> 0, symbolIdx |-> 0, calls |-> <<>>,
                  candle |-> <<>>, relevant5m |-> <<>>, relevant1m |-> <<>>,
                  queued |-> FALSE]

\* RunBacktest constructed and its data loaded.
Init ==
    /\ Constructed
    /\ driver = "backtest"
    /\ currentTime = simulationStartTime

\* RunLiveTrading constructed, before start().
InitLive ==
    /\ Constructed
    /\ driver = "start"
    /\ currentTime = LiveStart

\* Date.now() advances between calls.
Tick ==
    /\ clock < MaxClock
    /\ clock' = clock + 1
    /\ UNCHANGED <<smVars, smCall, pfVars, engVars, stratVars, driverVars>>

Transition ==
    \E newState \in StrategyState :
        /\ Len(stateHistory) < MaxTransitions
        /\ SetSM(transition(SM, newState, "request", clock))
        /\ smCall' = [op |-> "transition", arg |-> newState,
                      path |-> IF canTransition(SM, newState)
                               THEN <<currentState, newState>>
                               ELSE <<currentState>>,
                      refused |-> Refused(SM, newState)]
        /\ UNCHANGED <<clock, pfVars, engVars, stratVars, driverVars>>

Reset ==
    LET mid == transition(SM, "RESET", "Manual reset", clock)
        fin == reset(SM, clock)
    IN  /\ Len(stateHistory) + 2 <= MaxTransitions
        /\ SetSM(fin)
        /\ smCall' = [op |-> "reset", arg |-> "IDLE",
                      path |-> <<currentState>>
                               \o (IF mid.currentState # currentState
                                   THEN <<mid.currentState>> ELSE <<>>)
                               \o (IF fin.currentState # mid.currentState
                                   THEN <<fin.currentState>> ELSE <<>>),
                      refused |-> Refused(SM, "RESET") + Refused(mid, "IDLE")]
        /\ UNCHANGED <<clock, pfVars, engVars, stratVars, driverVars>>

NextSM == Tick \/ Transition \/ Reset

SpecSM == Init /\ [][NextSM]_vars

(***************************************************************************)
(* The execution engine's operations, called in any order                  *)
(***************************************************************************)
\* The record of a call: what was called and the trade the call closed.
Call(op, symbol, orderType, e) ==
    [op |-> op, symbol |-> symbol, orderType |-> orderType, closed |-> e.closed]

PlaceOrder ==
    \E signal \in Signals :
        /\ \/ ~canTrade(PF)
           \/ has(activePositions, signal.symbol)
           \/ Len(trades)
                  + Cardinality((DOMAIN pendingOrders \cup DOMAIN pendingMarketOrders)
                                    \ {signal.symbol}) < MaxTrades
        /\ SetEng(placeOrder(Eng, signal))
        /\ engCall' = Call("placeOrder", signal.symbol, signal.orderType, Eng)
        /\ UNCHANGED <<smVars, smCall, clock, stratVars, driverVars>>

OnMarketData ==
    \E candle \in Candles :
        /\ SetEng(onMarketData(Eng, candle))
        /\ engCall' = Call("onMarketData", candle.symbol, "none",
                           onMarketData(Eng, candle))
        /\ UNCHANGED <<smVars, smCall, clock, stratVars, driverVars>>

CancelOrder ==
    \E symbol \in Symbols :
        /\ SetEng(cancelOrder(Eng, symbol))
        /\ engCall' = Call("cancelOrder", symbol, "none", Eng)
        /\ UNCHANGED <<smVars, smCall, clock, stratVars, driverVars>>

ForceClosePosition ==
    \E symbol \in Symbols :
        /\ SetEng(forceClosePosition(Eng, symbol, "Force close", DateNow))
        /\ engCall' = Call("forceClosePosition", symbol, "none",
                           forceClosePosition(Eng, symbol, "Force close", DateNow))
        /\ UNCHANGED <<smVars, smCall, clock, stratVars, driverVars>>

(***************************************************************************)
(* The portfolio manager's operations, called in any order: the fees and   *)
(* results of trades on any symbol, and the driver's daily reset           *)
(***************************************************************************)
MaxDay == 2
MaxDailyLoss == 25000
MaxDrift == 12000

Fees == {500}

\* A losing and a winning trade, fees included in netPnl.
TradeResults ==
    {[pnl |-> -1000, fees |-> 1000, netPnl |-> -2000],
     [pnl |-> 4000, fees |-> 1000, netPnl |-> 3000]}

\* Midnights of the first days of January 1970 and of 1 February 1970.
ResetStamps == {d * MinutesPerDay : d \in (0..MaxDay) \cup {MonthLengths[1]}}

InDrift(bal) == Abs(bal - initialBalance) <= MaxDrift

DeductFee ==
    \E fee \in Fees :
        /\ InDrift(balance - fee)
        /\ SetPF(deductFee(PF, fee))
        /\ UNCHANGED <<smVars, smCall, clock, engVars, stratVars, driverVars>>

ApplyTradeResult ==
    \E result \in TradeResults :
        /\ InDrift(balance + result.pnl)
        /\ dailyLoss < MaxDailyLoss
        /\ consecutiveLosses <= MAX_CONSECUTIVE_LOSSES
        /\ SetPF(applyTradeResult(PF, result))
        /\ UNCHANGED <<smVars, smCall, clock, engVars, stratVars, driverVars>>

ResetDailyStats ==
    \E timestamp \in ResetStamps :
        /\ SetPF([resetDailyStats(PF, timestamp) EXCEPT !.processedStamp = timestamp])
        /\ UNCHANGED <<smVars, smCall, clock, engVars, stratVars, driverVars>>

NextPortfolio == DeductFee \/ ApplyTradeResult \/ ResetDailyStats

SpecPortfolio == Init /\ [][NextPortfolio]_vars

(***************************************************************************)
(* The kill switch: trades closing with small and large results, the       *)
(* driver's daily reset, and orders arriving while canTrade() is false     *)
(***************************************************************************)
MaxLossOfDay == 52000

\* A trade closes with one of TradeResults or with a loss of 2% of the initial
\* balance.
CloseTrade ==
    \E result \in TradeResults
                     \cup {[pnl |-> -9000, fees |-> 1000, netPnl |-> -10000]} :
        /\ InDrift(balance + result.pnl)
        /\ dailyLoss < MaxLossOfDay
        /\ consecutiveLosses <= MAX_CONSECUTIVE_LOSSES
        /\ SetPF(applyTradeResult(PF, result))
        /\ UNCHANGED <<smVars, smCall, clock, engVars, stratVars, driverVars>>

OrderAfterStop == ~canTrade(PF) /\ PlaceOrder

SpecKillSwitch ==
    Init /\ [][CloseTrade \/ ResetDailyStats \/ OrderAfterStop]_vars

(***************************************************************************)
(* The drivers: RunBacktest's loop and RunLiveTrading's loop               *)
(***************************************************************************)
MaxLive == 1

\* The symbol of the live driver's config.
LiveSymbol == "BTCUSDT"

\* portfolio.resetDailyStats(currentTime) is called when a minute starts,
\* before the first symbol.  (All stored minutes are of one UTC day, so the
\* calls in the minutes Advance passes over change nothing.)
EngAtMinute ==
    IF symbolIdx = 1
    THEN [Eng EXCEPT !.portfolio = [resetDailyStats(@, currentTime)
                                        EXCEPT !.processedStamp = currentTime]]
    ELSE Eng

\* The last candle of the 1m window: the candle the engine was given when its
\* minute was the current one, if that tick was processed.
LastClosed1m(symbol, ts) ==
    IF has(lastCandles, symbol) /\ lastCandles[symbol].timestamp = ts
    THEN {lastCandles[symbol]}
    ELSE {Candle1m(symbol, ts, bar) : bar \in Bars1m}

EnteredWait(s) ==
    IF s.sm.currentState = "WAIT_PULLBACK" /\ currentState # "WAIT_PULLBACK"
    THEN s.ctx.stateEnterTimestamp
    ELSE stratCall.enteredWait

\* What a tick leaves in the variables.
SetTick(r, symbol, minute, candle, relevant5m, relevant1m) ==
    /\ SetEng(r.e)
    /\ SetStrat(r.s)
    /\ engCall' = Call("onMarketData", symbol, "none", r.e)
    /\ stratCall' = [symbol |-> symbol, t1 |-> relevant1m[Len(relevant1m)],
                     signal |-> r.signal, enteredWait |-> EnteredWait(r.s)]
    /\ tickLog' = [driver |-> driver, minute |-> minute, symbolIdx |-> symbolIdx,
                   calls |-> r.calls, candle |-> <<candle>>,
                   relevant5m |-> relevant5m, relevant1m |-> relevant1m,
                   queued |-> r.queued]

\* One iteration of the symbol loop that reaches the calls.
BacktestTick ==
    /\ driver = "backtest"
    /\ currentTime <= maxTime
    /\ \E symbol \in {BacktestSymbols[symbolIdx]} :
       \E w \in {cutWindows(dataMap[symbol], cursors[symbol], currentTime)} :
           /\ w.processed
           /\ \E view \in Views5m, bar \in Bars1m :
              \E last1m \in LastClosed1m(symbol, w.relevant1m[Len(w.relevant1m)]) :
              \E candle \in {Candle1m(symbol, currentTime, bar)} :
              \E r \in {tickCalls(EngAtMinute, Strat, candle, symbol,
                                  Window5m(view, w.relevant5m[Len(w.relevant5m)]),
                                  <<last1m>>, clock)} :
                  /\ Len(r.s.sm.stateHistory) <= MaxHistory
                  /\ Len(r.e.trades) <= MaxTrades
                  /\ SetTick(r, symbol, currentTime, candle, w.relevant5m, w.relevant1m)
                  /\ cursors' = [cursors EXCEPT ![symbol] = w.cursor]
                  /\ Advance
                  /\ UNCHANGED <<clock, smCall, closes, serviceCall, driver, liveCandles5m, liveCandles1m,
                                 isRunning, download>>

\* One iteration of the symbol loop that ends at a continue: the symbol has
\* no 1m candle for this minute, or too few closed candles before it.
BacktestSkip ==
    /\ driver = "backtest"
    /\ currentTime <= maxTime
    /\ \E symbol \in {BacktestSymbols[symbolIdx]} :
       \E w \in {cutWindows(dataMap[symbol], cursors[symbol], currentTime)} :
           /\ ~w.processed
           /\ SetPF(EngAtMinute.portfolio)
           /\ cursors' = [cursors EXCEPT ![symbol] = w.cursor]
           /\ Advance
           /\ UNCHANGED <<smVars, clock, smCall, closes, serviceCall, pendingOrders, pendingMarketOrders,
                          activePositions, lastCandles, trades, audit, engCall,
                          ctx, stratCall, driver, liveCandles5m, liveCandles1m,
                          isRunning, download, tickLog>>

\* The candles the exchange holds when the live driver starts: quiet bars.
QuietView == CHOOSE view \in Views5m : view.adx = 25 /\ view.last.close = 99600
QuietBar == CHOOSE bar \in Bars1m : bar.close = 99500

\* start() up to its loop: isRunning is set and loadInitialData fills the
\* buffers with the exchange's newest candles, the last of each being the bar
\* in progress.
LoadInitialData ==
    /\ driver = "start"
    /\ isRunning' = TRUE
    /\ liveCandles5m' = <<Window5m(QuietView, 5 * (currentTime \div 5) - 5).last,
                          Window5m(QuietView, 5 * (currentTime \div 5)).last>>
    /\ liveCandles1m' = <<Candle1m(LiveSymbol, currentTime - 1, QuietBar),
                          Candle1m(LiveSymbol, currentTime, QuietBar)>>
    /\ driver' = "live"
    /\ UNCHANGED <<smVars, clock, smCall, closes, serviceCall, pfVars, engVars, stratVars, cursors,
                   download, tickLog>>

\* One iteration of the loop of start() in which processTick(symbol) returns:
\* the exchange's newest candles, fetched dt minutes after the last fetch,
\* update the buffers; then the calls; then the loop sleeps tickInterval.
ProcessTick ==
    /\ driver = "live" /\ isRunning
    /\ \E dt \in {0, 1}, view \in Views5m, bar \in Bars1m :
       \E now \in {currentTime + dt} :
       \E buffer5m \in {updateCandleBuffer(liveCandles5m,
                                           Window5m(view, 5 * (now \div 5)).last, 300)} :
       \E buffer1m \in {updateCandleBuffer(liveCandles1m,
                                           Candle1m(LiveSymbol, now, bar), 300)} :
       \E current1m \in {buffer1m[Len(buffer1m)]} :
       \E r \in {tickCalls(Eng, Strat, current1m, LiveSymbol,
                           [view EXCEPT !.last = buffer5m[Len(buffer5m)]],
                           buffer1m, clock)} :
           /\ now <= LiveStart + MaxLive
           /\ Len(r.s.sm.stateHistory) <= MaxHistory
           /\ Len(r.e.trades) <= MaxTrades
           /\ currentTime' = now
           /\ liveCandles5m' = buffer5m
           /\ liveCandles1m' = buffer1m
           /\ SetTick(r, LiveSymbol, now, current1m,
                      [i \in DOMAIN buffer5m |-> buffer5m[i].timestamp],
                      [i \in DOMAIN buffer1m |-> buffer1m[i].timestamp])
           /\ driver' = "sleep"
           /\ UNCHANGED <<clock, smCall, closes, serviceCall, symbolIdx, cursors, isRunning, download>>

\* Mutant: nothing catches the error and start() ends with it.
TickErrorAborts ==
    /\ driver = "live" /\ isRunning
    /\ driver' = "returned"
    /\ UNCHANGED <<smVars, clock, smCall, closes, serviceCall, pfVars, engVars, stratVars, cursors,
                   liveCandles5m, liveCandles1m, isRunning, download, tickLog>>

\* One iteration in which processTick throws at its first request to the
\* exchange: the catch block logs the error and sleeps a second.
TickError ==
    /\ driver = "live" /\ isRunning
    /\ driver' = "backoff"
    /\ UNCHANGED <<smVars, clock, smCall, closes, serviceCall, pfVars, engVars, stratVars, cursors,
                   liveCandles5m, liveCandles1m, isRunning, download, tickLog>>

\* The sleep ends and the loop is back at its condition.
Wake ==
    /\ driver \in {"sleep", "backoff"}
    /\ driver' = "live"
    /\ UNCHANGED <<smVars, clock, smCall, closes, serviceCall, pfVars, engVars, stratVars, cursors,
                   liveCandles5m, liveCandles1m, isRunning, download, tickLog>>

\* stop(), called while start() runs.
Stop ==
    /\ driver \in {"live", "sleep", "backoff"} /\ isRunning
    /\ isRunning' = FALSE
    /\ UNCHANGED <<smVars, clock, smCall, closes, serviceCall, pfVars, engVars, stratVars, driver,
                   cursors, liveCandles5m, liveCandles1m, download, tickLog>>

\* The loop's condition is false and start() returns.
ReturnFromStart ==
    /\ driver = "live" /\ ~isRunning
    /\ driver' = "returned"
    /\ UNCHANGED <<smVars, clock, smCall, closes, serviceCall, pfVars, engVars, stratVars, cursors,
                   liveCandles5m, liveCandles1m, isRunning, download, tickLog>>

NextLive ==
    LoadInitialData \/ ProcessTick \/ TickError \/ Wake \/ Stop \/ ReturnFromStart

NextDrivers == BacktestTick \/ BacktestSkip \/ NextLive

SpecDrivers == (Init \/ InitLive) /\ [][NextDrivers]_vars

\* The backtest alone.  Its loop body is a sequence of awaited calls, so the
\* loop goes on to its next position while minutes remain.
NextBacktest == BacktestTick \/ BacktestSkip

LoopStep == driver = "backtest" /\ currentTime <= maxTime /\ Advance

SpecBacktestFair ==
    Init /\ [][NextBacktest]_vars /\ WF_<<currentTime, symbolIdx>>(LoopStep)

\* The live driver alone.  A sleep is a timer that fires, and the loop's
\* condition is evaluated when it does.
SpecLiveFair ==
    InitLive /\ [][NextLive]_vars /\ WF_driver(Wake) /\ WF_driver(ReturnFromStart)

(***************************************************************************)
(* RunBacktest.fetchHistoricalData for one symbol and the 1m timeframe.    *)
(* Timestamps are minutes; the range asked for is downloadStart..downloadEnd *)
(***************************************************************************)
MaxDownload == 3
MAX_RETRIES == 3
MAX_LOOPS == 500

downloadStart == 0
downloadEnd == downloadStart + MaxDownload

\* candleRepo.getCandles(symbol, timeframe, start, end)
getCandles(stored) == {ts \in stored : downloadStart <= ts /\ ts <= downloadEnd}

\* What the data feed may answer to getCandles(symbol, timeframe, LIMIT, curr):
\* nothing, one or two candles from curr on, or a candle older than curr.
Batches(curr) == {<<>>, <<curr>>, <<curr, curr + 1>>, <<curr - 1>>}

\* The requests made for the current batch, this one included.
Attempt(d) == IF d.retries = 0 THEN 1 ELSE d.attempts + 1

\* The return of fetchHistoricalData.
Finish(d) == [d EXCEPT !.pc = "done", !.returned = getCandles(d.stored)]

\* The outer loop's condition, evaluated before a batch is requested.
EnterLoop(d) ==
    IF d.curr < downloadEnd /\ d.loopCount < MAX_LOOPS
    THEN [d EXCEPT !.pc = "loop", !.retries = 0]
    ELSE Finish(d)

\* The cache check and the choice of the point to resume from, for a store
\* that is empty, holds the first two candles, or holds the whole range.
BeginFetch ==
    /\ download.pc = "idle"
    /\ \E cached \in {{}, {downloadStart, downloadStart + 1},
                       downloadStart..downloadEnd} :
       \E d \in {[download EXCEPT !.stored = cached]} :
       \E expectedCount \in {downloadEnd - downloadStart} :
           download' =
               IF Cardinality(getCandles(cached)) * 100 >= expectedCount * 95
               THEN Finish(d)
               ELSE LET lastCandle == {ts \in cached : \A o \in cached : o <= ts} IN
                    EnterLoop([d EXCEPT !.curr =
                        IF \E ts \in lastCandle : ts > downloadStart
                        THEN (CHOOSE ts \in lastCandle : TRUE) + 1
                        ELSE downloadStart])
    /\ UNCHANGED <<smVars, clock, smCall, closes, serviceCall, pfVars, engVars, stratVars, driver,
                   cursors, liveCandles5m, liveCandles1m, isRunning, tickLog>>

\* One pass of the retry loop in which the request is answered in time.
Request ==
    /\ download.pc = "loop"
    /\ \E batch \in Batches(download.curr) :
       \E d \in {[download EXCEPT !.attempts = Attempt(download)]} :
           download' =
               IF Len(batch) = 0 THEN Finish(d)
               ELSE LET saved == [d EXCEPT
                            !.stored = @ \cup {batch[i] : i \in DOMAIN batch},
                            !.curr = batch[Len(batch)] + 1]
                    IN  IF batch[Len(batch)] >= downloadEnd THEN Finish(saved)
                        ELSE EnterLoop([saved EXCEPT !.loopCount = @ + 1])
    /\ UNCHANGED <<smVars, clock, smCall, closes, serviceCall, pfVars, engVars, stratVars, driver,
                   cursors, liveCandles5m, liveCandles1m, isRunning, tickLog>>

\* Mutant: the retries are not limited.
RequestFailsUnlimited ==
    /\ download.pc = "loop" /\ download.retries < MAX_RETRIES + 1
    /\ download' = [download EXCEPT !.attempts = Attempt(download),
                                    !.retries = @ + 1]
    /\ UNCHANGED <<smVars, clock, smCall, closes, serviceCall, pfVars, engVars, stratVars, driver,
                   cursors, liveCandles5m, liveCandles1m, isRunning, tickLog>>

\* One pass of the retry loop in which the request times out or throws.
RequestFails ==
    /\ download.pc = "loop"
    /\ \E d \in {[download EXCEPT !.attempts = Attempt(download),
                                   !.retries = @ + 1]} :
           download' = IF d.retries >= MAX_RETRIES THEN Finish(d) ELSE d
    /\ UNCHANGED <<smVars, clock, smCall, closes, serviceCall, pfVars, engVars, stratVars, driver,
                   cursors, liveCandles5m, liveCandles1m, isRunning, tickLog>>

NextDownload == BeginFetch \/ Request \/ RequestFails

\* Every request is answered, throws, or is timed out after TIMEOUT_MS, and
\* every sleep ends.
SpecDownloadFair ==
    Init /\ [][NextDownload]_vars /\ WF_download(NextDownload)

(***************************************************************************)
(* The indicator functions, called with any candles                        *)
(***************************************************************************)
MaxCandles == 4
IndicatorPeriod == 2

\* A narrow candle and a wide one without volume.
IndicatorCandles ==
    {[high |-> 101, low |-> 100, close |-> 101, volume |-> 1],
     [high |-> 104, low |-> 100, close |-> 102, volume |-> 0]}

\* calculateSMA is given the closes.
Apply(fn, candles, period) ==
    CASE fn = "EMA" -> calculateEMA(candles, period)
      [] fn = "ATR" -> calculateATR(candles, period)
      [] fn = "ADX" -> calculateADX(candles, period)
      [] fn = "VWAP" -> [num |-> calculateVWAP(candles), den |-> 1]
      [] fn = "SMA" -> calculateSMA([i \in DOMAIN candles |-> candles[i].close],
                                    period)

\* A call of one of the functions with up to MaxCandles candles.
Calculate ==
    \E fn \in {"EMA", "ATR", "ADX", "VWAP", "SMA"},
       candles \in UNION {[1..n -> IndicatorCandles] : n \in 0..MaxCandles} :
        /\ serviceCall' = [fn |-> fn, candles |-> candles, period |-> IndicatorPeriod,
                       result |-> Apply(fn, candles, IndicatorPeriod)]
        /\ UNCHANGED <<smVars, clock, smCall, closes, pfVars, engVars, stratVars, driver,
                       cursors, liveCandles5m, liveCandles1m, isRunning, download,
                       tickLog>>

SpecIndicators == Init /\ [][Calculate]_vars

(***************************************************************************)
(* PullbackValidator.isPullbackValid, called with any last candle          *)
(***************************************************************************)
\* Last 1m candles above the range high of 100000 and below the range low of
\* 99000, shallow and deep.
PullbackCandles ==
    {[high |-> 100180, low |-> 100100, close |-> 100150],
     [high |-> 100400, low |-> 100300, close |-> 100390],
     [high |-> 100400, low |-> 99900, close |-> 100150],
     [high |-> 98900, low |-> 98830, close |-> 98850],
     [high |-> 98700, low |-> 98600, close |-> 98610],
     [high |-> 99100, low |-> 98600, close |-> 98850]}

\* Breakouts of that range, with impulseSize the distance of the breakout
\* close from the range.
PullbackBreakouts ==
    {[direction |-> "LONG", price |-> 100200, impulseSize |-> 200],
     [direction |-> "LONG", price |-> 100600, impulseSize |-> 600],
     [direction |-> "SHORT", price |-> 98800, impulseSize |-> 200],
     [direction |-> "SHORT", price |-> 98400, impulseSize |-> 600]}

ValidatePullback ==
    \E candles1m \in {<<>>} \cup {<<c>> : c \in PullbackCandles},
       breakout \in PullbackBreakouts,
       vwap \in {0, 98600, 98850, 100150, 100400} :
       \E range \in {[high |-> 100000, low |-> 99000, size |-> 1000]} :
        /\ serviceCall' = [fn |-> "isPullbackValid", candles |-> candles1m,
                           period |-> 0, breakout |-> breakout, range |-> range,
                           vwap |-> vwap,
                           result |-> isPullbackValid(candles1m, breakout, range,
                                                      vwap)]
        /\ UNCHANGED <<smVars, clock, smCall, closes, pfVars, engVars, stratVars, driver,
                       cursors, liveCandles5m, liveCandles1m, isRunning, download,
                       tickLog>>

SpecPullback == Init /\ [][ValidatePullback]_vars

(***************************************************************************)
(* RunBacktest.calculateStats                                              *)
(***************************************************************************)
\* tradeRepo.getTradeHistory: the records of the trades the last engine call
\* closed, as closeTrade left them in the store (pnl is the gross PnL at the
\* exit price it was given).
getTradeHistory ==
    [i \in DOMAIN engCall.closed |->
        LET c == engCall.closed[i] IN
        [status |-> trades[c.tradeId].status, entryPrice |-> c.entryPrice,
         size |-> c.size, exitPrice |-> c.exitPrice, exitReason |-> c.reason,
         pnl |-> IF c.direction = "LONG"
                 THEN Volume(c.exitPrice - c.entryPrice, c.size)
                 ELSE Volume(c.entryPrice - c.exitPrice, c.size)]]

\* The fees calculateStats computes for a trade; RunBacktest's MAKER_FEE and
\* TAKER_FEE have the engine's values.
tradeFee(trade) ==
    LET entryVol == Volume(trade.entryPrice, trade.size)
        exitVol == Volume(trade.exitPrice, trade.size)
        entryFee == Mul(entryVol, TAKER_FEE)
        exitFee == IF includesStop(trade.exitReason)
                   THEN Mul(exitVol, TAKER_FEE)
                   ELSE Mul(exitVol, MAKER_FEE)
    IN  entryFee + exitFee

RECURSIVE totalPnl(_, _)
\* totalStats.totalPnl after the first n records of the history.
totalPnl(history, n) ==
    IF n = 0 THEN 0
    ELSE LET trade == history[n] IN
         totalPnl(history, n - 1)
         + (IF trade.status = "CLOSED" /\ trade.exitPrice # 0
            THEN trade.pnl - tradeFee(trade)
            ELSE 0)

calculateStats(history, finalBalance) ==
    [totalPnl |-> totalPnl(history, Len(history)), finalBalance |-> finalBalance]

(***************************************************************************)
(* RangeBreakPullbackStrategy.generateSignal, called with any windows      *)
(***************************************************************************)
MaxSpan == 300
CallGap == 60

\* The timestamps of the last 1m candle and the last 5m candle of the
\* previous call; before the first call, the start of the data.
PreviousT1 == IF stratCall.symbol = "none" THEN simulationStartTime ELSE stratCall.t1
PreviousT5 ==
    IF tickLog.relevant5m = <<>> THEN simulationStartTime - 5
    ELSE tickLog.relevant5m[Len(tickLog.relevant5m)]

\* generateSignal(symbol, candles5m, candles1m) with a later last 1m candle,
\* an hour or more than two hours after the previous one, and the same last
\* 5m bar or the bar that closed last before the 1m candle.
GenerateSignal ==
    /\ driver = "backtest"
    /\ \E view \in Views5m, bar \in Bars1m, dt \in {CallGap, PULLBACK_TIMEOUT + 1} :
       \E t1 \in {PreviousT1 + dt} :
       \E t5 \in {PreviousT5, 5 * (t1 \div 5) - 5} :
       \E r \in {generateSignal(Strat, LiveSymbol, Window5m(view, t5),
                                <<Candle1m(LiveSymbol, t1, bar)>>, clock)} :
           /\ t1 <= simulationStartTime + MaxSpan
           /\ Len(r.s.sm.stateHistory) <= MaxHistory
           /\ SetStrat(r.s)
           /\ stratCall' = [symbol |-> LiveSymbol, t1 |-> t1, signal |-> r.signal,
                            enteredWait |-> EnteredWait(r.s)]
           /\ tickLog' = [tickLog EXCEPT !.driver = "none", !.minute = t1,
                                         !.calls = <<"generateSignal">>,
                                         !.relevant5m = <<t5>>,
                                         !.relevant1m = <<t1>>]
           /\ UNCHANGED <<clock, smCall, closes, serviceCall, pfVars, engVars, currentTime,
                          symbolIdx, driver, cursors, liveCandles5m, liveCandles1m,
                          isRunning, download>>

SpecStrategy == Init /\ [][GenerateSignal]_vars

\* The drivers call generateSignal on every tick, so the calls go on while
\* there are timestamps left.
SpecStrategyFair == SpecStrategy /\ WF_vars(GenerateSignal)

Next == PlaceOrder \/ OnMarketData \/ CancelOrder \/ ForceClosePosition

Spec == Init /\ [][Next]_vars

(***************************************************************************)
(* The engine's operations with a trade store that rejects saveTrade       *)
(***************************************************************************)
\* What the balance may lose to fills whose saveTrade is rejected: two entry
\* fees.
MaxRejectedFees == 1000

\* onMarketData(candle) in which checkLimitOrders fills the pending LIMIT
\* order and saveTrade rejects inside openPosition: the rejection passes
\* through checkLimitOrders and onMarketData, whose remaining statements do
\* not run.  The store rejects before the first save it accepts.
OnMarketDataSaveRejected ==
    \E candle \in Candles :
    \E e1 \in {executePendingMarketOrders(
                   [Eng EXCEPT !.lastCandles = MapSet(@, candle.symbol, candle)],
                   candle)} :
        /\ has(e1.pendingOrders, candle.symbol)
        /\ LET order == e1.pendingOrders[candle.symbol]
               signal == order.signal
               filled == IF signal.direction = "LONG"
                         THEN candle.low <= signal.price
                         ELSE candle.high >= signal.price
               fillPrice == IF signal.direction = "LONG"
                            THEN signal.price + Mul(signal.price, HalfSlippage)
                            ELSE signal.price - Mul(signal.price, HalfSlippage)
               e2 == openPositionSaveRejected(e1, candle.symbol, signal, order.size,
                                              fillPrice, candle.timestamp)
           IN  /\ afterSignalCandle(candle, order)
               /\ filled
               /\ trades = <<>>
               /\ initialBalance - e2.portfolio.balance <= MaxRejectedFees
               /\ SetEng(e2)
               /\ engCall' = Call("onMarketData rejected", candle.symbol, "LIMIT", e2)
        /\ UNCHANGED <<smVars, smCall, clock, stratVars, driverVars>>

NextStoreFails == PlaceOrder \/ OnMarketData \/ OnMarketDataSaveRejected

SpecStoreFails == Init /\ [][NextStoreFails]_vars

(***************************************************************************)
(* The engine's operations with closePosition suspended at its await       *)
(***************************************************************************)
MaxCloses == 2

\* No closePosition call is suspended.
Quiet == \A i \in DOMAIN closes : closes[i].done

\* onMarketData(candle) up to the await of the closePosition call that
\* managePositions makes.  The drivers await each onMarketData, so none
\* starts while another is suspended.
ManageSuspends ==
    /\ Quiet /\ Len(closes) < MaxCloses
    /\ \E candle \in Candles :
       \E e2 \in {checkLimitOrders(
                      executePendingMarketOrders(
                          [Eng EXCEPT !.lastCandles = MapSet(@, candle.symbol, candle)],
                          candle),
                      candle)} :
           /\ has(e2.activePositions, candle.symbol)
           /\ LET pos == e2.activePositions[candle.symbol]
                  exit == exitDecision(pos, candle)
                  r == closePositionToAwait(e2, candle.symbol, exit.exitPrice,
                                            candle.timestamp, exit.exitReason)
              IN  /\ managedCandle(candle, pos.entryTime)
                  /\ exit.exitReason # ""
                  /\ SetEng(r.e)
                  /\ engCall' = Call("onMarketData", candle.symbol, "none", r.e)
                  /\ closes' = closes \o r.call
    /\ UNCHANGED <<smVars, smCall, clock, stratVars, driver, cursors, liveCandles5m,
                   liveCandles1m, isRunning, download, serviceCall, tickLog>>

\* forceClosePosition(symbol, reason) up to the await of its closePosition
\* call; it may be called while another close is suspended.
ForceCloseSuspends ==
    /\ Len(closes) < MaxCloses
    /\ \E symbol \in Symbols :
           /\ has(activePositions, symbol)
           /\ getCurrentPrice(Eng, symbol) # 0
           /\ LET r == closePositionToAwait(Eng, symbol, getCurrentPrice(Eng, symbol),
                                            DateNow, "Force close")
              IN  /\ SetEng(r.e)
                  /\ engCall' = Call("forceClosePosition", symbol, "none", r.e)
                  /\ closes' = closes \o r.call
    /\ UNCHANGED <<smVars, smCall, clock, stratVars, driver, cursors, liveCandles5m,
                   liveCandles1m, isRunning, download, serviceCall, tickLog>>

\* The trade store answers the oldest suspended call, which runs to its end.
CloseResumes ==
    /\ ~Quiet
    /\ \E i \in {Least({j \in DOMAIN closes : ~closes[j].done})} :
           /\ SetEng(closePositionFromAwait(Eng, closes[i]))
           /\ closes' = [closes EXCEPT ![i].done = TRUE]
    /\ UNCHANGED <<smVars, smCall, clock, stratVars, engCall, driver, cursors,
                   liveCandles5m, liveCandles1m, isRunning, download, serviceCall,
                   tickLog>>

\* Between suspended closes the operations run to their end.
NextRace ==
    \/ Quiet /\ (PlaceOrder \/ OnMarketData)
    \/ ManageSuspends
    \/ ForceCloseSuspends
    \/ CloseResumes

SpecRace == Init /\ [][NextRace]_vars

(***************************************************************************)
(* Claims about the state machine                                          *)
(***************************************************************************)

\* The transition table as the specification states it.
ClaimedSuccessors(state) ==
    CASE state = "IDLE" -> {"RANGE_DEFINED"}
      [] state = "RANGE_DEFINED" -> {"BREAKOUT_DETECTED", "RESET"}
      [] state = "BREAKOUT_DETECTED" -> {"WAIT_PULLBACK", "RESET"}
      [] state = "WAIT_PULLBACK" -> {"LIMIT_ORDER_PLACED", "RESET"}
      [] state = "LIMIT_ORDER_PLACED" -> {"IN_POSITION", "RESET"}
      [] state = "IN_POSITION" -> {"EXIT", "RESET"}
      [] state = "EXIT" -> {"RESET"}
      [] state = "RESET" -> {"IDLE"}
      [] OTHER -> {}

\* The pairs of consecutive values currentState took during the last call.
PathEdges ==
    {<<smCall.path[i], smCall.path[i + 1]>> : i \in 1..(Len(smCall.path) - 1)}

\* C7: every change of currentState made by transition() or reset() is an
\* edge of the specified table, and every edge of the specified table is
\* accepted when it is requested.
C7_TransitionTable ==
    /\ \A e \in PathEdges : e[2] \in ClaimedSuccessors(e[1])
    /\ (smCall.op = "transition" /\ smCall.arg \in ClaimedSuccessors(smCall.path[1]))
           => currentState = smCall.arg

\* C8: a transition() call that is refused leaves currentState, the
\* state-entry timestamp and the state history as they were.
C8_RefusedTransitionChangesNothing ==
    [][(clock' = clock /\ smCall'.op = "transition" /\ smCall'.refused = 1)
          => UNCHANGED <<currentState, lastTransitionTime, stateHistory>>]_vars

\* A transition() call was refused in a state the machine had advanced to, at
\* a wall-clock time later than the state's entry.
C8_Witness ==
    /\ smCall.op = "transition" /\ smCall.refused = 1
    /\ currentState = "WAIT_PULLBACK" /\ smCall.arg = "IN_POSITION"
    /\ Len(stateHistory) = 3 /\ clock > lastTransitionTime

\* C9: every refused transition() call emits a log entry.
C9_RefusalIsLogged ==
    [][(clock' = clock /\ smCall'.op = "transition" /\ smCall'.refused = 1
            /\ smCall' # smCall)
          => consoleLog' > consoleLog]_vars

\* The state each state of the setup chain must be entered from.
ClaimedPredecessor(state) ==
    CASE state = "IN_POSITION" -> "LIMIT_ORDER_PLACED"
      [] state = "LIMIT_ORDER_PLACED" -> "WAIT_PULLBACK"
      [] state = "WAIT_PULLBACK" -> "BREAKOUT_DETECTED"
      [] state = "BREAKOUT_DETECTED" -> "RANGE_DEFINED"
      [] state = "RANGE_DEFINED" -> "IDLE"
      [] OTHER -> state

\* C10: IN_POSITION is entered only from LIMIT_ORDER_PLACED, that only from
\* WAIT_PULLBACK, that only from BREAKOUT_DETECTED, that only from
\* RANGE_DEFINED, and that only from IDLE.
C10_SetupChain ==
    \A e \in PathEdges :
        e[2] \in {"IN_POSITION", "LIMIT_ORDER_PLACED", "WAIT_PULLBACK",
                  "BREAKOUT_DETECTED", "RANGE_DEFINED"}
            => e[1] = ClaimedPredecessor(e[2])

(***************************************************************************)
(* Claims about the execution engine and the portfolio                     *)
(***************************************************************************)

\* The trade records of symbol that the repository holds as OPEN.
OpenTrades(symbol) ==
    {i \in DOMAIN trades : trades[i].symbol = symbol /\ trades[i].status = "OPEN"}

\* C1: every symbol has at most one open position and at most one pending
\* order, the limit map and the market map counted together.
C1_OnePositionOnePending ==
    \A s \in Symbols :
        /\ ~(has(pendingOrders, s) /\ has(pendingMarketOrders, s))
        /\ Cardinality(OpenTrades(s)) <= 1
        /\ has(activePositions, s) <=> OpenTrades(s) # {}

\* A LIMIT order was requested while a MARKET order was queued for the symbol,
\* and it was not stored.
C1_Witness ==
    /\ engCall.op = "placeOrder" /\ engCall.orderType = "LIMIT"
    /\ has(pendingMarketOrders, engCall.symbol)
    /\ ~has(pendingOrders, engCall.symbol)

\* C2: a position's entry time is later than the timestamp of the order that
\* produced it; an order is not filled on a candle at or before its timestamp.
C2_FillAfterSignal ==
    /\ \A s \in DOMAIN activePositions :
           activePositions[s].entryTime > activePositions[s].signal.timestamp
    /\ \A i \in DOMAIN engCall.closed :
           engCall.closed[i].entryTime > engCall.closed[i].signalTime

\* onMarketData delivered a candle that carries the order's own timestamp and
\* reaches the limit price, and the order is still pending.
C2_Witness ==
    /\ engCall.op = "onMarketData"
    /\ has(pendingOrders, engCall.symbol)
    /\ LET order == pendingOrders[engCall.symbol]
           candle == lastCandles[engCall.symbol]
       IN  /\ candle.timestamp = order.timestamp
           /\ order.signal.direction = "LONG"
           /\ candle.low <= order.signal.price

\* C3: for every closed trade, whatever the order of the candle timestamps,
\* exit time > entry time > signal time.
C3_TradeTimesOrdered ==
    \A i \in DOMAIN engCall.closed :
        /\ engCall.closed[i].exitTime > engCall.closed[i].entryTime
        /\ engCall.closed[i].entryTime > engCall.closed[i].signalTime

\* The liquidation level as the specification gives it.
ClaimedLiquidation(entryPrice, direction) ==
    IF direction = "LONG"
    THEN entryPrice - (entryPrice \div LEVERAGE) + Mul(entryPrice, MAINTENANCE_MARGIN)
    ELSE entryPrice + (entryPrice \div LEVERAGE) - Mul(entryPrice, MAINTENANCE_MARGIN)

CrossesLiquidationAndStop(pos, candle) ==
    LET liq == ClaimedLiquidation(pos.entryPrice, pos.signal.direction) IN
    IF pos.signal.direction = "LONG"
    THEN candle.low <= liq /\ candle.low <= pos.signal.stopLoss
    ELSE candle.high >= liq /\ candle.high >= pos.signal.stopLoss

\* C4: when onMarketData manages an open position on a candle (not its entry
\* candle) that crosses both the liquidation level and the stop-loss, the
\* position is closed with reason LIQUIDATED at the liquidation price.
C4_LiquidationBeforeStop ==
    [][\A s \in Symbols :
          (/\ engCall'.op = "onMarketData" /\ engCall'.symbol = s
           /\ has(activePositions, s)
           /\ lastCandles'[s].timestamp # activePositions[s].entryTime
           /\ CrossesLiquidationAndStop(activePositions[s], lastCandles'[s]))
          => (/\ ~has(activePositions', s)
              /\ Len(engCall'.closed) = 1
              /\ engCall'.closed[1].reason = "LIQUIDATED"
              /\ engCall'.closed[1].requestedExit =
                     ClaimedLiquidation(activePositions[s].entryPrice,
                                        activePositions[s].signal.direction))]_vars

\* A long position was closed by a later candle whose low is under both the
\* stop-loss and the liquidation level.
C4_Witness ==
    /\ engCall.op = "onMarketData" /\ Len(engCall.closed) = 1
    /\ LET c == engCall.closed[1]
           candle == lastCandles[engCall.symbol]
       IN  /\ c.direction = "LONG" /\ c.reason = "LIQUIDATED"
           /\ candle.low <= c.stopLoss
           /\ candle.low <= ClaimedLiquidation(c.entryPrice, "LONG")
           /\ c.exitTime > c.entryTime

\* Gross PnL of a closed trade from its prices and size.
ClaimedGross(c) ==
    IF c.direction = "LONG"
    THEN Volume(c.exitPrice - c.entryPrice, c.size)
    ELSE Volume(c.entryPrice - c.exitPrice, c.size)

\* C5: for a closed trade, balance after the close minus balance before the
\* open is gross PnL - entry fee - exit fee.
C5_BalanceDelta ==
    \A i \in DOMAIN engCall.closed :
        LET c == engCall.closed[i] IN
        /\ c.rawPnl = ClaimedGross(c)
        /\ c.entryFee = Mul(Volume(c.entryPrice, c.size), TAKER_FEE)
        /\ c.balAfter - c.balBefore = ClaimedGross(c) - c.entryFee - c.exitFee

\* A short position was closed at its take-profit with a gain after fees.
C5_Witness ==
    /\ Len(engCall.closed) = 1
    /\ LET c == engCall.closed[1]
       IN  /\ c.direction = "SHORT" /\ c.reason = "Take Profit"
           /\ c.entryFee > 0 /\ c.exitFee > 0
           /\ c.balAfter > c.balBefore

canTradeNow == canTrade(PF)

\* C6: once canTrade() is false it stays false until resetDailyStats sees a
\* new UTC day.
C6_KillSwitchStaysOn ==
    [][(~canTradeNow /\ lastDayProcessed' = lastDayProcessed) => ~canTradeNow']_vars

\* The conditions under which placeOrder must reject an order for symbol.
MustReject(symbol) ==
    \/ ~canTradeNow
    \/ has(activePositions, symbol)
    \/ has(pendingOrders, symbol) \/ has(pendingMarketOrders, symbol)

\* C11: placeOrder leaves both pending maps, the positions and the balance
\* unchanged when the kill switch is active, the symbol has a position or the
\* symbol has a pending order; otherwise it adds one pending order for the
\* symbol, to the map of its order type, and opens no position.
C11_PlaceOrderContract ==
    [][\A s \in Symbols :
          (engCall'.op = "placeOrder" /\ engCall'.symbol = s)
          => IF MustReject(s)
             THEN UNCHANGED <<pendingOrders, pendingMarketOrders, activePositions,
                              balance>>
             ELSE /\ UNCHANGED <<activePositions, balance, trades>>
                  /\ IF engCall'.orderType = "LIMIT"
                     THEN /\ DOMAIN pendingOrders' = DOMAIN pendingOrders \cup {s}
                          /\ pendingOrders'[s].signal.orderType = "LIMIT"
                          /\ pendingMarketOrders' = pendingMarketOrders
                     ELSE /\ DOMAIN pendingMarketOrders'
                                = DOMAIN pendingMarketOrders \cup {s}
                          /\ pendingMarketOrders'[s].signal.orderType = "MARKET"
                          /\ pendingOrders' = pendingOrders]_vars

\* placeOrder was called with the kill switch active, after a liquidation, and
\* nothing is pending or open.
C11_Witness ==
    /\ engCall.op = "placeOrder" /\ ~canTradeNow
    /\ Len(trades) >= 1
    /\ pendingOrders = <<>> /\ pendingMarketOrders = <<>> /\ activePositions = <<>>

\* C14: a pending LIMIT order is not filled by a candle more than 120 minutes
\* after its enqueue timestamp; the first such candle removes it from the
\* pending map.
C14_LimitOrderExpires ==
    [][\A s \in Symbols :
          (/\ engCall'.op = "onMarketData" /\ engCall'.symbol = s
           /\ has(pendingOrders, s)
           /\ lastCandles'[s].timestamp - pendingOrders[s].timestamp > LIMIT_TIMEOUT)
          => (~has(pendingOrders', s) /\ trades' = trades)]_vars

(***************************************************************************)
(* Claims about the strategy                                               *)
(***************************************************************************)

\* The step is a generateSignal call.
StrategyCalled == stratCall' # stratCall

\* C15: a generateSignal call in WAIT_PULLBACK whose last 1m candle is more
\* than 120 minutes after the timestamp WAIT_PULLBACK was entered with resets
\* the strategy (the state machine passes through RESET to IDLE, the breakout
\* and the setup are dropped) and returns no signal.
C15_PullbackTimeoutResets ==
    [][(/\ StrategyCalled
        /\ currentState = "WAIT_PULLBACK"
        /\ stratCall'.t1 - stratCall.enteredWait > 120)
       => (/\ stratCall'.signal = <<>>
           /\ ctx'.breakout = <<>>
           /\ Len(stateHistory') >= Len(stateHistory) + 2
           /\ stateHistory'[Len(stateHistory) + 1].state = "WAIT_PULLBACK"
           /\ stateHistory'[Len(stateHistory) + 2].state = "RESET")]_vars

\* C19: a generateSignal call for another symbol leaves the strategy state
\* and context that the first symbol's next call starts from unchanged.
C19_OtherSymbolDoesNotInterfere ==
    [][(StrategyCalled /\ stratCall'.symbol = BacktestSymbols[2])
       => UNCHANGED <<currentState, ctx>>]_vars

Ticked == tickLog' # tickLog

\* C12: a tick that starts in WAIT_PULLBACK and whose signal placeOrder
\* rejects leaves the strategy as it was before the tick: the same state and
\* the same state-entry timestamp.
C12_RejectedOrderLeavesStrategy ==
    [][(/\ Ticked
        /\ currentState = "WAIT_PULLBACK"
        /\ stratCall'.signal # <<>>
        /\ ~tickLog'.queued)
       => (/\ currentState' = currentState
           /\ ctx'.stateEnterTimestamp = ctx.stateEnterTimestamp)]_vars

\* A LIMIT order for the first symbol was queued in the first session, more
\* than 120 minutes before the stored candles end.
C13_Emitted ==
    /\ tickLog.driver = "backtest"
    /\ tickLog.symbolIdx = 1
    /\ tickLog.queued
    /\ tickLog.minute <= firstSessionEnd

\* The order was touched: a position was opened.
C13_Filled == trades # <<>>

\* That order is no longer pending, and the strategy has been reset to IDLE.
C13_Abandoned ==
    /\ ~(/\ has(pendingOrders, BacktestSymbols[1])
         /\ pendingOrders[BacktestSymbols[1]].timestamp <= firstSessionEnd)
    /\ \E i \in DOMAIN stateHistory : stateHistory[i].state = "RESET"

\* C13: a LIMIT order that is queued and not touched is eventually removed,
\* and the strategy is eventually reset to IDLE.
C13_UntouchedSetupIsAbandoned == C13_Emitted ~> (C13_Filled \/ C13_Abandoned)

\* C16: a tick calls onMarketData, then generateSignal, then placeOrder if
\* there is a signal, so that an order queued in a tick is still pending
\* when the tick ends; in the backtest the ticks follow each other by minute
\* and, within a minute, by symbol.
C16_CallOrder ==
    [][Ticked
       => (/\ tickLog'.calls = <<"onMarketData", "generateSignal">>
                                   \o (IF stratCall'.signal # <<>> THEN <<"placeOrder">>
                                       ELSE <<>>)
           /\ tickLog'.queued => has(pendingOrders', stratCall'.symbol)
           /\ (tickLog'.driver = "backtest" /\ tickLog.driver = "backtest")
                  => \/ tickLog'.minute > tickLog.minute
                     \/ /\ tickLog'.minute = tickLog.minute
                        /\ tickLog'.symbolIdx > tickLog.symbolIdx)]_vars

\* The second symbol's tick of a minute placed an order, after the first
\* symbol's tick of that minute.
C16_Witness ==
    /\ tickLog.driver = "backtest"
    /\ tickLog.symbolIdx = 2
    /\ tickLog.calls = <<"onMarketData", "generateSignal", "placeOrder">>
    /\ stratCall.t1 = tickLog.minute - 1
    /\ has(lastCandles, BacktestSymbols[1])
    /\ lastCandles[BacktestSymbols[1]].timestamp = tickLog.minute

\* C17: the 5m candles the backtest passes to generateSignal at minute t have
\* closed by t, and the 1m candles are older than t.
C17_WindowsAreClosed ==
    tickLog.driver = "backtest"
        => /\ \A i \in DOMAIN tickLog.relevant5m :
                  tickLog.relevant5m[i] + 5 <= tickLog.minute
           /\ \A i \in DOMAIN tickLog.relevant1m :
                  tickLog.relevant1m[i] < tickLog.minute

\* A tick of the symbol with missing 5m candles, after the gap: the last 5m
\* candle passed is older than the 5m bar before the current one, and the
\* last 1m candle is older than the minute before.
C17_Witness ==
    /\ tickLog.driver = "backtest"
    /\ tickLog.symbolIdx = 2
    /\ tickLog.minute = simulationStartTime + GapMinutes
    /\ Len(tickLog.relevant5m) > WARMUP_5M
    /\ Len(tickLog.relevant1m) = WARMUP_1M + 1
    /\ tickLog.relevant5m[Len(tickLog.relevant5m)] + 10 < tickLog.minute
    /\ tickLog.relevant1m[Len(tickLog.relevant1m)] + 1 < tickLog.minute

\* C18: in a tick of the live driver, the candle given to onMarketData is not
\* the last candle of the 1m window given to generateSignal.
C18_LiveWindowExcludesCurrentBar ==
    tickLog.driver = "live"
        => tickLog.candle # <<liveCandles1m[Len(liveCandles1m)]>>

(***************************************************************************)
(* Claims about the kill switch and the daily reset                        *)
(***************************************************************************)
\* dailyLoss / balance >= 10% or consecutiveLosses >= 10, for a positive
\* balance.
ClaimedStop ==
    \/ dailyLoss * 100 >= balance * 10
    \/ consecutiveLosses >= 10

CalendarDay(timestamp) == timestamp \div MinutesPerDay

\* C22: a resetDailyStats call whose timestamp is of another UTC calendar day
\* than the timestamp of the previous call zeroes dailyLoss and
\* consecutiveLosses, also when the two days are of different months and have
\* the same day of the month; a call for the same calendar day leaves both
\* unchanged.
C22_ResetOnNewCalendarDay ==
    [][(processedStamp' # processedStamp /\ processedStamp # -1)
       => IF CalendarDay(processedStamp') # CalendarDay(processedStamp)
          THEN dailyLoss' = 0 /\ consecutiveLosses' = 0
          ELSE UNCHANGED <<dailyLoss, consecutiveLosses>>]_vars

(***************************************************************************)
(* Claims about the strategy's context                                     *)
(***************************************************************************)
SetupStates ==
    {"RANGE_DEFINED", "BREAKOUT_DETECTED", "WAIT_PULLBACK", "LIMIT_ORDER_PLACED"}

C24_LoopSurvivesErrorsAndStops ==
    /\ [](driver = "returned" => ~isRunning)
    /\ [][tickLog' # tickLog => isRunning]_vars
    /\ (driver = "backoff") ~> (driver = "live")
    /\ (driver # "start" /\ ~isRunning) ~> (driver = "returned")

\* Ticks were made, one threw, and stop() was called during the back-off
\* sleep.
C24_Witness ==
    driver = "backoff" /\ ~isRunning /\ tickLog.driver = "live"

(***************************************************************************)
(* Claims about the historical download                                    *)
(***************************************************************************)
\* C25: no batch is requested more than 3 times, failures of either kind
\* counted; the third failure ends the download, and fetchHistoricalData
\* returns the candles of the range that the store holds; and the download
\* ends whatever the data feed answers.
C25_DownloadRetriesAndTerminates ==
    /\ [](download.attempts <= 3)
    /\ [][(download'.retries = 3 /\ download.retries = 2)
           => (download'.pc = "done"
               /\ download'.returned = getCandles(download.stored))]_vars
    /\ <>(download.pc = "done")

\* The third request for a batch failed after two batches were saved, and the
\* saved candles were returned.
C25_Witness ==
    /\ download.pc = "done" /\ download.retries = 3 /\ download.attempts = 3
    /\ download.loopCount = 2
    /\ download.returned = {downloadStart, downloadStart + 1}

(***************************************************************************)
(* Claims about the way to RESET                                           *)
(***************************************************************************)
\* C26: a transition to RESET is accepted in every state, IDLE included:
\* transition(RESET) moves the machine to RESET, and reset() has none of its
\* two transitions refused.
C26_ResetFromAnyState ==
    [][(smCall' # smCall /\ clock' = clock)
       => /\ (smCall'.op = "transition" /\ smCall'.arg = "RESET")
                 => (smCall'.refused = 0 /\ currentState' = "RESET")
          /\ smCall'.op = "reset" => smCall'.refused = 0]_vars

(***************************************************************************)
(* Claims about the forced close                                           *)
(***************************************************************************)
\* C27: forceClosePosition for a symbol without a position, or without any
\* candle received, changes nothing; for a symbol with a position it closes one
\* trade at the close of the symbol's last candle (the price before exit
\* slippage), removes the position, closes the trade record, and applies the
\* result to the portfolio: the balance moves by gross PnL minus the exit fee,
\* and the loss counters follow the net PnL.
C27_ForceClose ==
    [][\A s \in Symbols :
          (engCall'.op = "forceClosePosition" /\ engCall'.symbol = s)
          => IF ~has(activePositions, s) \/ ~has(lastCandles, s)
             THEN UNCHANGED <<pendingOrders, pendingMarketOrders, activePositions,
                              lastCandles, trades, balance, dailyLoss,
                              consecutiveLosses>>
             ELSE /\ ~has(activePositions', s)
                  /\ Len(engCall'.closed) = 1
                  /\ OpenTrades(s)' = {}
                  /\ LET c == engCall'.closed[1]
                         net == c.rawPnl - c.entryFee - c.exitFee
                     IN  /\ c.symbol = s
                         /\ c.requestedExit = lastCandles[s].close
                         /\ c.rawPnl = ClaimedGross(c)
                         /\ balance' = balance + c.rawPnl - c.exitFee
                         /\ dailyLoss' = dailyLoss + (IF net < 0 THEN -net ELSE 0)
                         /\ consecutiveLosses'
                                = IF net < 0 THEN consecutiveLosses + 1 ELSE 0]_vars

\* A position was force-closed at the close of a last candle whose open
\* differs from it, and the trade made a loss.
C27_Witness ==
    /\ engCall.op = "forceClosePosition" /\ Len(engCall.closed) = 1
    /\ engCall.closed[1].reason = "Force close"
    /\ engCall.closed[1].requestedExit = lastCandles["BTCUSDT"].close
    /\ lastCandles["BTCUSDT"].close # lastCandles["BTCUSDT"].open
    /\ activePositions = <<>> /\ consecutiveLosses = 1

(***************************************************************************)
(* Claims about the indicators                                             *)
(***************************************************************************)
\* Wilder's smoothing over the first k true ranges: the average of the first
\* period of them, then ATR_k = ((period - 1) * ATR_(k-1) + TR_k) / period.
RECURSIVE Wilder(_, _, _)
Wilder(trs, period, k) ==
    IF k = period THEN [num |-> Sum(SubSeq(trs, 1, period)), den |-> period]
    ELSE LET prev == Wilder(trs, period, k - 1)
         IN  [num |-> (period - 1) * prev.num + trs[k] * prev.den,
              den |-> period * prev.den]

\* C28: on candles that give at least period true ranges, calculateATR
\* returns the Wilder-smoothed value over all of them.
C28_ATRIsWilder ==
    (serviceCall.fn = "ATR" /\ Len(serviceCall.candles) >= serviceCall.period + 1)
    => LET trs == trueRanges(serviceCall.candles)
           w == Wilder(trs, serviceCall.period, Len(trs))
       IN  serviceCall.result.num * w.den = w.num * serviceCall.result.den

\* The number of candles (of values, for calculateSMA) below which a function
\* has too few.
Needed(fn, period) ==
    CASE fn = "EMA" -> period
      [] fn = "ATR" -> period + 1
      [] fn = "ADX" -> 2 * period
      [] fn = "VWAP" -> 1
      [] fn = "SMA" -> period
      [] OTHER -> 0

\* C29: every indicator function returns 0 on fewer candles than it needs,
\* calculateEMA on fewer than period.
C29_ZeroOnShortInput ==
    Len(serviceCall.candles) < Needed(serviceCall.fn, serviceCall.period)
    => serviceCall.result.num = 0

(***************************************************************************)
(* Claims about the pullback validator                                     *)
(***************************************************************************)
\* C30: on a non-empty 1m window, isPullbackValid is true for a LONG breakout
\* exactly when breakout price - low of the last candle is at most half the
\* impulse and its close is within 0.2% of max(rangeHigh, VWAP); for a SHORT
\* breakout, with high - breakout price and min(rangeLow, VWAP).
C30_PullbackNearTheFartherLevel ==
    (serviceCall.fn = "isPullbackValid" /\ serviceCall.candles # <<>>)
    => LET last == serviceCall.candles[1]
           b == serviceCall.breakout
           r == serviceCall.range
       IN  serviceCall.result
           <=> IF b.direction = "LONG"
               THEN /\ 2 * (b.price - last.low) <= b.impulseSize
                    /\ near(last.close, Max(r.high, serviceCall.vwap))
               ELSE /\ 2 * (last.high - b.price) <= b.impulseSize
                    /\ near(last.close, Min(r.low, serviceCall.vwap))

(***************************************************************************)
(* Claims about the strategy's calls, second part                          *)
(***************************************************************************)
\* The 5m bar passed to the generateSignal call of this step, and whether the
\* call ran the 5m logic on it.
Bar5m == tickLog'.relevant5m[Len(tickLog'.relevant5m)]
Ran5mLogic ==
    Bar5m > checkTimeouts(Strat, stratCall'.t1, clock).ctx.lastProcessedBar5m

\* C31: no generateSignal call runs the 5m logic on the bar whose timestamp is
\* the lastProcessedBar5m it was called with, that is, on a bar the 5m logic
\* has already processed; calls in which the timeout resets the strategy
\* included.
C31_Bar5mProcessedOnce ==
    [][(Ticked /\ Ran5mLogic) => Bar5m # ctx.lastProcessedBar5m]_vars

\* C32: a generateSignal call that returns a signal (the validator accepted
\* in WAIT_PULLBACK) returns a LIMIT signal and leaves the state machine in
\* LIMIT_ORDER_PLACED; and no two calls in a row return a signal.
C32_OneSignalPerSetup ==
    /\ [][(Ticked /\ stratCall'.signal # <<>>)
          => (/\ stratCall'.signal[1].orderType = "LIMIT"
              /\ currentState' = "LIMIT_ORDER_PLACED")]_vars
    /\ [][(Ticked /\ stratCall'.signal # <<>>) => stratCall.signal = <<>>]_vars

(***************************************************************************)
(* Claims about the execution engine, second part                          *)
(***************************************************************************)
\* Which of its levels the candle reaches for the position.
Reaches(pos, candle, level) ==
    LET price == CASE level = "liquidation" ->
                          ClaimedLiquidation(pos.entryPrice, pos.signal.direction)
                   [] level = "stop" -> pos.signal.stopLoss
                   [] level = "target" -> pos.signal.takeProfit
        below == (pos.signal.direction = "LONG") = (level # "target")
    IN  IF below THEN candle.low <= price ELSE candle.high >= price

\* C33: when onMarketData manages an open position on a candle later than its
\* entry candle, a candle that reaches the stop-loss and the take-profit but
\* not the liquidation level closes it with reason Stop Loss at the stop-loss
\* price; and a close with reason Take Profit happens only on a candle that
\* reaches neither the liquidation level nor the stop-loss.
C33_StopBeforeTarget ==
    [][\A s \in Symbols :
          (/\ engCall'.op = "onMarketData" /\ engCall'.symbol = s
           /\ has(activePositions, s)
           /\ lastCandles'[s].timestamp > activePositions[s].entryTime)
          => LET pos == activePositions[s]
                 candle == lastCandles'[s]
             IN  /\ (/\ Reaches(pos, candle, "stop")
                     /\ Reaches(pos, candle, "target")
                     /\ ~Reaches(pos, candle, "liquidation"))
                    => (/\ ~has(activePositions', s)
                        /\ Len(engCall'.closed) = 1
                        /\ engCall'.closed[1].reason = "Stop Loss"
                        /\ engCall'.closed[1].requestedExit = pos.signal.stopLoss)
                 /\ (/\ Len(engCall'.closed) = 1
                     /\ engCall'.closed[1].reason = "Take Profit")
                    => (/\ ~Reaches(pos, candle, "liquidation")
                        /\ ~Reaches(pos, candle, "stop")
                        /\ Reaches(pos, candle, "target"))]_vars

\* A short position was closed at its stop-loss by a later candle that
\* reaches the stop-loss and the take-profit but not the liquidation level.
C33_Witness ==
    /\ engCall.op = "onMarketData" /\ Len(engCall.closed) = 1
    /\ LET c == engCall.closed[1]
           candle == lastCandles[engCall.symbol]
       IN  /\ c.direction = "SHORT" /\ c.reason = "Stop Loss"
           /\ c.requestedExit = c.stopLoss
           /\ candle.high >= c.stopLoss
           /\ candle.low <= 98750
           /\ candle.high < ClaimedLiquidation(c.entryPrice, "SHORT")
           /\ c.exitTime > c.entryTime

(***************************************************************************)
(* Claims about the state machine, second part                             *)
(***************************************************************************)
\* C34: after reset() the machine is in IDLE, whatever state it was called
\* in; and in every state a second reset() leaves currentState where the
\* first one put it.
C34_ResetReachesIdle ==
    /\ smCall.op = "reset" => currentState = "IDLE"
    /\ reset(SM, clock).currentState = "IDLE"
    /\ reset(reset(SM, clock), clock).currentState = reset(SM, clock).currentState

\* reset() was called in EXIT, the last state of a full setup, and went
\* through RESET to IDLE.
C34_Witness ==
    /\ smCall.op = "reset" /\ smCall.path = <<"EXIT", "RESET", "IDLE">>
    /\ currentState = "IDLE"
    /\ \E i \in DOMAIN stateHistory : stateHistory[i].state = "IN_POSITION"

EnteredBy(i) ==
    IF i < Len(stateHistory) THEN stateHistory[i + 1].state ELSE currentState

\* C36: between generateSignal calls the state machine is not in
\* BREAKOUT_DETECTED, EXIT or RESET; every BREAKOUT_DETECTED it went through
\* was left for WAIT_PULLBACK and every RESET for IDLE.
C36_NoTransientStateBetweenCalls ==
    /\ currentState \notin {"BREAKOUT_DETECTED", "EXIT", "RESET"}
    /\ \A i \in DOMAIN stateHistory :
          /\ stateHistory[i].state = "BREAKOUT_DETECTED"
                => EnteredBy(i) = "WAIT_PULLBACK"
          /\ stateHistory[i].state = "RESET" => EnteredBy(i) = "IDLE"

\* A call detected a breakout and returned in WAIT_PULLBACK, and a later call
\* timed the setup out and returned in IDLE.
C36_Witness ==
    /\ currentState = "IDLE" /\ stratCall.symbol # "none"
    /\ \E i, j \in DOMAIN stateHistory :
          /\ i < j
          /\ stateHistory[i].state = "BREAKOUT_DETECTED"
          /\ stateHistory[j].state = "RESET"

\* The symbol has an order in one of the pending maps.
Pending(s) == has(pendingOrders, s) \/ has(pendingMarketOrders, s)

\* C37: after every engine operation no symbol has both a pending order and
\* an active position; the onMarketData call that opens a position removes
\* the order it filled; and placeOrder for a symbol that has a position
\* queues nothing.
C37_NoPendingOrderBesidePosition ==
    /\ [](\A s \in Symbols : ~(Pending(s) /\ has(activePositions, s)))
    /\ [][\A s \in Symbols :
             /\ (~has(activePositions, s) /\ has(activePositions', s))
                   => (engCall'.op = "onMarketData" /\ Pending(s) /\ ~Pending(s)')
             /\ (engCall'.op = "placeOrder" /\ engCall'.symbol = s
                 /\ has(activePositions, s))
                   => UNCHANGED <<pendingOrders, pendingMarketOrders>>]_vars

\* placeOrder was called for a symbol whose LIMIT order had been filled and
\* whose position is open, and nothing is pending for it.
C37_Witness ==
    /\ engCall.op = "placeOrder"
    /\ has(activePositions, engCall.symbol)
    /\ activePositions[engCall.symbol].signal.orderType = "LIMIT"
    /\ ~Pending(engCall.symbol)

\* C38: no trade is closed twice: of the closePosition calls that got as far
\* as deducting the exit fee and asking the store to close the trade (and
\* that apply the result when they resume), no two are for the same trade.
C38_PositionClosedOnce ==
    \A i, j \in DOMAIN closes : closes[i].tradeId = closes[j].tradeId => i = j

\* C39: an onMarketData call in which saveTrade rejects while the pending
\* LIMIT order is being filled leaves the engine as it was before the call:
\* the balance is what it was, no position is recorded and the order is
\* still pending.
C39_RejectedSaveLeavesEngine ==
    [][engCall'.op = "onMarketData rejected"
       => (/\ balance' = balance
           /\ activePositions' = activePositions
           /\ pendingOrders' = pendingOrders)]_vars

(***************************************************************************)
(* Claims about the backtest's report                                      *)
(***************************************************************************)
\* C40: when every trade that was opened has been closed, the totalPnl that
\* calculateStats reports equals final balance - initial balance.
C40_ReportedPnlIsBalanceChange ==
    (/\ engCall.closed # <<>>
     /\ Len(engCall.closed) = Len(trades)
     /\ \A i \in DOMAIN trades : trades[i].status = "CLOSED")
    => LET result == calculateStats(getTradeHistory, balance)
       IN  result.totalPnl = result.finalBalance - initialBalance

====
